---- MODULE Spec2Model ----
(***************************************************************************)
(* carbon-guard-cli: a model of the local script auditor (parent, sampling *)
(* thread, child process; the emission estimates; the audit of a list of   *)
(* scripts), of the stand-alone psutil monitor, of the two reduction-plan  *)
(* generators, of the AWS service audit, of the receipt parser and of the  *)
(* path and carbon-intensity utilities.                                    *)
(*                                                                         *)
(* Numbers: the floats of the plan generator and of the sampling model    *)
(* are exact scaled integers (co2_reduction in tenths of a percent, cpu    *)
(* averages in hundredths); the floats of the emission formulas are        *)
(* binary64 values, computed bit for bit.                                  *)
(* Time: `now' counts whole seconds since the current call began; every    *)
(* time the source reads is used in a difference only.                     *)
(***************************************************************************)
EXTENDS Integers, Sequences, FiniteSets, TLC

VARIABLES
    \* ---- LocalAuditor (src/carbon_guard/local_auditor.py)
    monitoring_data,    \* self.monitoring_data: the sample list
    monitoring_active,  \* self.monitoring_active
    pc,                 \* where the calling thread is inside the auditor
    frame,              \* the locals of the call in progress
    threads,            \* the sampling threads ever created, by call number
    now,                \* seconds since the call in progress began
    calls,              \* calls made on the auditor so far
    ret,                \* what the last call returned or raised (none while one runs)
    \* ---- monitor_script_co2 (src/psutil_co2_monitor.py): the locals of one call
    m_data,             \* monitoring_data
    m_active,           \* monitoring_active
    m_pc,               \* where the caller is
    m_frame,            \* duration, sample_interval, start_time, ...
    m_thread,           \* the collect_metrics thread
    m_now,              \* seconds since the call began
    m_ret,              \* what the call returned
    \* ---- PlanGenerator (src/carbon_guard/plan_generator.py)
    action_templates,   \* the class-level ACTION_TEMPLATES table
    baseline,           \* what _load_baseline_data reads from the audit files
    plan_prev,          \* the plan returned by the call before the last
    plan_last,          \* the plan returned by the last generate_plan call
    \* ---- AWSAuditor.audit_all_services (src/carbon_guard/aws_auditor.py)
    aws_pc,             \* where the call is
    aws_results,        \* the results dictionary being filled
    aws_raised,         \* the services whose audit raised, in this call
    aws_audited,        \* how often each service's audit was called, in this call
    \* ---- AWSAuditor objects and audit_ec2 (src/carbon_guard/aws_auditor.py)
    auditors,           \* the AWSAuditor objects constructed so far
    ec2_fleet,          \* the account's instances: how many of each type in each state
    ec2_report,         \* what the last audit_ec2 returned
    \* ---- the emission estimates of LocalAuditor (src/carbon_guard/local_auditor.py)
    est_call,           \* the estimating function called, with its arguments
    est_result,         \* what it returned
    \* ---- ReceiptParser.calculate_carbon_footprint (src/carbon_guard/receipt_parser.py)
    rc_receipt,         \* receipt_data
    rc_filter,          \* category_filter
    rc_result,          \* what the call returned
    \* ---- validate_file_path (src/carbon_guard/utils.py)
    vf_files,           \* the files that exist, by their resolved paths
    vf_call,            \* file_path and must_exist
    vf_result,          \* what the call returned or raised
    \* ---- LocalAuditor.audit_multiple_scripts (src/carbon_guard/local_auditor.py)
    ms_paths,           \* script_paths
    ms_pc,              \* where the call is
    ms_i,               \* the position of the loop in script_paths
    ms_results,         \* results
    ms_total,           \* total_co2
    ms_audits,          \* the audit_script calls made, and how each ended
    \* ---- CO2ReductionPlanner.generate_reduction_plan (src/co2_reduction_planner.py)
    crp_files,          \* the JSON files of the data directory
    crp_call,           \* target_reduction, timeframe_months and focus_areas
    crp_plan,           \* the plan returned
    \* ---- utils.calculate_carbon_intensity (src/carbon_guard/utils.py)
    ci_lookup           \* the last call: its region and what it returned

auditVars == <<monitoring_data, monitoring_active, pc, frame, threads, now, calls, ret>>

monVars == <<m_data, m_active, m_pc, m_frame, m_thread, m_now, m_ret>>

planVars == <<action_templates, baseline, plan_prev, plan_last>>

awsVars == <<aws_pc, aws_results, aws_raised, aws_audited>>

ec2Vars == <<auditors, ec2_fleet, ec2_report>>

estVars == <<est_call, est_result>>

rcVars == <<rc_receipt, rc_filter, rc_result>>

vfVars == <<vf_files, vf_call, vf_result>>

msVars == <<ms_paths, ms_pc, ms_i, ms_results, ms_total, ms_audits>>

crpVars == <<crp_files, crp_call, crp_plan>>

ciVars == <<ci_lookup>>

vars == <<auditVars, monVars, planVars, awsVars, ec2Vars, estVars, rcVars, vfVars, msVars, crpVars, ciVars>>

\* what the LocalAuditor never touches
otherThanAudit == <<monVars, planVars, awsVars, ec2Vars, estVars, rcVars, vfVars, msVars, crpVars, ciVars>>
\* what monitor_script_co2 never touches
otherThanMonitor == <<auditVars, planVars, awsVars, ec2Vars, estVars, rcVars, vfVars, msVars, crpVars, ciVars>>
\* what the PlanGenerator never touches
otherThanPlan == <<auditVars, monVars, awsVars, ec2Vars, estVars, rcVars, vfVars, msVars, crpVars, ciVars>>
\* what the AWSAuditor never touches
otherThanAws == <<auditVars, monVars, planVars, ec2Vars, estVars, rcVars, vfVars, msVars, crpVars, ciVars>>
\* what audit_ec2 and the AWSAuditor constructor never touch
otherThanEc2 == <<auditVars, monVars, planVars, awsVars, estVars, rcVars, vfVars, msVars, crpVars, ciVars>>
\* what the emission estimates never touch
otherThanEstimate == <<auditVars, monVars, planVars, awsVars, ec2Vars, rcVars, vfVars, msVars, crpVars, ciVars>>
\* what calculate_carbon_footprint never touches
otherThanReceipt == <<auditVars, monVars, planVars, awsVars, ec2Vars, estVars, vfVars, msVars, crpVars, ciVars>>
\* what validate_file_path never touches
otherThanValidate == <<auditVars, monVars, planVars, awsVars, ec2Vars, estVars, rcVars, msVars, crpVars, ciVars>>
\* what calculate_carbon_intensity never touches
otherThanLookup == <<auditVars, monVars, planVars, awsVars, ec2Vars, estVars, rcVars, vfVars, msVars, crpVars>>
\* what generate_reduction_plan never touches
otherThanPlanner == <<auditVars, monVars, planVars, awsVars, ec2Vars, estVars, rcVars, vfVars, msVars, ciVars>>
\* what audit_multiple_scripts never touches
otherThanMultiple == <<auditVars, monVars, planVars, awsVars, ec2Vars, estVars, rcVars, vfVars, crpVars, ciVars>>

\* ------------------------------------------------------------------ bounds

MaxCalls == 2
MaxDuration == 1
\* the most instances the account holds, and the most AWSAuditor objects built
MaxInstances == 8
MaxAuditors == 2
\* the most samples in a list handed to an emission estimate
MaxSamples == 2
\* the most items on a receipt
MaxItems == 2
\* the most paths in a list handed to audit_multiple_scripts
MaxScripts == 3

\* ------------------------------------------------------- program constants

TimeoutBuffer == 10
SampleInterval == 1

\* ------------------------------------------------------------------ helpers

RECURSIVE SumCpu(_)
SumCpu(data) ==
    IF data = <<>> THEN 0 ELSE Head(data).cpu_percent + SumCpu(Tail(data))

CpuValues == {0, 50}
Durations == 0..MaxDuration
ThreadIds == 1..MaxCalls

NoThread == [pc |-> "none", start_time |-> 0, duration |-> 0, wake |-> 0]
\* a terminated thread: its locals are gone
DoneThread == [NoThread EXCEPT !.pc = "done"]
NoFrame ==
    [op |-> "none", duration |-> 0, start_time |-> 0,
     wake |-> 0, started |-> 0, children |-> 0, killed |-> FALSE,
     execution_successful |-> FALSE, script_errors |-> "",
     actual_duration |-> 0, avg_cpu_percent |-> 0, read |-> <<>>]
NoRet ==
    [kind |-> "none", op |-> "none", error |-> "", execution_successful |-> FALSE,
     script_errors |-> "", monitoring_samples |-> 0, avg_cpu_percent |-> 0,
     started |-> 0, children |-> 0, killed |-> FALSE]

Alive(k) == threads[k].pc \notin {"none", "done"}
AliveThreads == {k \in ThreadIds : Alive(k)}

\* _calculate_emissions, the part that reads the sample list: the average
\* cpu percent over the samples, or over the two snapshots when there is none.
AvgCpuPercent(data, initial_cpu, final_cpu) ==
    IF data # <<>>
    THEN (SumCpu(data) * 100) \div Len(data)
    ELSE ((initial_cpu + final_cpu) * 100) \div 2

\* ------------------------------------------------------ binary64 arithmetic
\* The floats of the emission formulas, kept bit for bit. A natural number of
\* any size is a sequence of limbs, least significant first, without leading
\* zero limbs; a float is m * 2^e with m of exactly MantissaBits bits (or zero).

LimbBase == 1024
LimbBits == 10
MantissaBits == 53

RECURSIVE Pow2(_)
Pow2(k) == IF k = 0 THEN 1 ELSE 2 * Pow2(k - 1)

RECURSIVE Carry(_, _)
Carry(limbs, c) ==
    IF limbs = <<>>
    THEN IF c = 0 THEN <<>> ELSE <<c % LimbBase>> \o Carry(<<>>, c \div LimbBase)
    ELSE <<(Head(limbs) + c) % LimbBase>>
             \o Carry(Tail(limbs), (Head(limbs) + c) \div LimbBase)

RECURSIVE Trim(_)
Trim(limbs) ==
    IF limbs = <<>> THEN <<>>
    ELSE IF limbs[Len(limbs)] = 0 THEN Trim(SubSeq(limbs, 1, Len(limbs) - 1))
         ELSE limbs

Limb(a, i) == IF i \in 1..Len(a) THEN a[i] ELSE 0

BigFromInt(n) == Carry(<<>>, n)

BigAdd(a, b) ==
    LET n == IF Len(a) > Len(b) THEN Len(a) ELSE Len(b)
    IN  Trim(Carry([i \in 1..n |-> Limb(a, i) + Limb(b, i)], 0))

\* a * k, for k below 2^20
BigMulSmall(a, k) == Trim(Carry([i \in 1..Len(a) |-> a[i] * k], 0))

RECURSIVE ColumnSum(_, _, _, _)
ColumnSum(a, b, k, i) ==
    IF i > Len(a) THEN 0
    ELSE Limb(a, i) * Limb(b, k + 1 - i) + ColumnSum(a, b, k, i + 1)

BigMul(a, b) ==
    IF a = <<>> \/ b = <<>> THEN <<>>
    ELSE Trim(Carry([k \in 1..(Len(a) + Len(b) - 1) |-> ColumnSum(a, b, k, 1)], 0))

\* -1, 0, 1 as a < b, a = b, a > b
RECURSIVE BigCmpFrom(_, _, _)
BigCmpFrom(a, b, i) ==
    IF i = 0 THEN 0
    ELSE IF a[i] < b[i] THEN -1
         ELSE IF a[i] > b[i] THEN 1
              ELSE BigCmpFrom(a, b, i - 1)

BigCmp(a, b) ==
    IF Len(a) < Len(b) THEN -1
    ELSE IF Len(a) > Len(b) THEN 1
         ELSE BigCmpFrom(a, b, Len(a))

\* a - b, for a >= b
RECURSIVE Borrow(_, _, _, _)
Borrow(a, b, i, c) ==
    IF i > Len(a) THEN <<>>
    ELSE LET v == a[i] - Limb(b, i) - c
         IN  IF v < 0 THEN <<v + LimbBase>> \o Borrow(a, b, i + 1, 1)
             ELSE <<v>> \o Borrow(a, b, i + 1, 0)

BigSub(a, b) == Trim(Borrow(a, b, 1, 0))

RECURSIVE IntBitLen(_)
IntBitLen(n) == IF n = 0 THEN 0 ELSE 1 + IntBitLen(n \div 2)

BitLen(a) == IF a = <<>> THEN 0 ELSE (Len(a) - 1) * LimbBits + IntBitLen(a[Len(a)])

\* a * 2^k
ShiftLeft(a, k) ==
    IF a = <<>> THEN <<>>
    ELSE [i \in 1..(k \div LimbBits) |-> 0] \o BigMulSmall(a, Pow2(k % LimbBits))

\* a \div 2^k
ShiftRight(a, k) ==
    LET whole == k \div LimbBits
        bits == k % LimbBits
        high == IF whole >= Len(a) THEN <<>> ELSE SubSeq(a, whole + 1, Len(a))
    IN  Trim([i \in 1..Len(high) |->
                 (high[i] \div Pow2(bits))
                     + (Limb(high, i + 1) % Pow2(bits)) * Pow2(LimbBits - bits)])

\* a \div d and whether a remainder is left, for 0 < d <= LimbBase
RECURSIVE LongDivide(_, _, _, _)
LongDivide(a, d, i, r) ==
    IF i = 0 THEN [quotient |-> <<>>, remainder |-> r]
    ELSE LET v == r * LimbBase + a[i]
             rest == LongDivide(a, d, i - 1, v % d)
         IN  [quotient |-> Append(rest.quotient, v \div d), remainder |-> rest.remainder]

BigDivSmall(a, d) ==
    LET res == LongDivide(a, d, Len(a), 0)
        \* LongDivide lists the quotient from the top limb down
        q == [i \in 1..Len(a) |-> res.quotient[i]]
    IN  [quotient |-> Trim(q), inexact |-> res.remainder # 0]

\* a float is s * m * 2^e with s the sign (1 or -1); zero is FloatZero
FloatZero == [s |-> 1, m |-> <<>>, e |-> 0]

\* the float nearest to n * 2^e (ties to even); inexact says that n was already
\* cut short of the exact value
FloatRound(n, e, inexact) ==
    LET len == BitLen(n)
    IN  IF len = 0 THEN FloatZero
        ELSE IF len <= MantissaBits
             THEN [s |-> 1, m |-> ShiftLeft(n, MantissaBits - len),
                   e |-> e - (MantissaBits - len)]
             ELSE LET cut == len - MantissaBits
                      q == ShiftRight(n, cut)
                      r == BigSub(n, ShiftLeft(q, cut))
                      half == BigCmp(ShiftLeft(r, 1), ShiftLeft(<<1>>, cut))
                      up == \/ half = 1
                            \/ half = 0 /\ (inexact \/ q[1] % 2 = 1)
                      m == IF up THEN BigAdd(q, <<1>>) ELSE q
                  IN  IF BitLen(m) > MantissaBits
                      THEN [s |-> 1, m |-> ShiftRight(m, 1), e |-> e + cut + 1]
                      ELSE [s |-> 1, m |-> m, e |-> e + cut]

WithSign(s, x) == IF x.m = <<>> THEN x ELSE [x EXCEPT !.s = s]

FloatNeg(x) == WithSign(-x.s, x)

FloatFromInt(n) ==
    IF n < 0 THEN WithSign(-1, FloatRound(BigFromInt(-n), 0, FALSE))
    ELSE FloatRound(BigFromInt(n), 0, FALSE)

FloatAdd(x, y) ==
    IF x.m = <<>> THEN y
    ELSE IF y.m = <<>> THEN x
         ELSE LET e == IF x.e < y.e THEN x.e ELSE y.e
                  a == ShiftLeft(x.m, x.e - e)
                  b == ShiftLeft(y.m, y.e - e)
              IN  IF x.s = y.s THEN WithSign(x.s, FloatRound(BigAdd(a, b), e, FALSE))
                  ELSE IF BigCmp(a, b) >= 0
                       THEN WithSign(x.s, FloatRound(BigSub(a, b), e, FALSE))
                       ELSE WithSign(y.s, FloatRound(BigSub(b, a), e, FALSE))

FloatMul(x, y) == WithSign(x.s * y.s, FloatRound(BigMul(x.m, y.m), x.e + y.e, FALSE))

\* x / d for an integer d given as factors of at most LimbBase each
RECURSIVE DivideBy(_, _)
DivideBy(res, factors) ==
    IF factors = <<>> THEN res
    ELSE LET step == BigDivSmall(res.quotient, Head(factors))
         IN  DivideBy([quotient |-> step.quotient,
                       inexact |-> res.inexact \/ step.inexact], Tail(factors))

GuardBits == 32

FloatDiv(x, factors) ==
    LET res == DivideBy([quotient |-> ShiftLeft(x.m, GuardBits), inexact |-> FALSE], factors)
    IN  WithSign(x.s, FloatRound(res.quotient, x.e - GuardBits, res.inexact))

\* the limbs of a above the lowest k, as a number (there are at most three)
TopLimbs(a, k) == Limb(a, k + 1) + LimbBase * (Limb(a, k + 2) + LimbBase * Limb(a, k + 3))

\* the largest digit, from c down, whose product with b is at most n
RECURSIVE DigitFrom(_, _, _)
DigitFrom(n, b, c) ==
    IF c = 0 \/ BigCmp(BigMulSmall(b, c), n) <= 0 THEN c ELSE DigitFrom(n, b, c - 1)

\* one limb of a long division by b > 0: n < b * LimbBase is the remainder so
\* far with the next limb of the dividend below it. The digit is looked for
\* from one above the quotient of the top limbs, which it cannot exceed.
DivideStep(n, b) ==
    LET k == IF Len(b) > 2 THEN Len(b) - 2 ELSE 0
        guess == TopLimbs(n, k) \div TopLimbs(b, k) + 1
        digit == DigitFrom(n, b, IF guess < LimbBase THEN guess ELSE LimbBase - 1)
    IN  [digit |-> digit, remainder |-> BigSub(n, BigMulSmall(b, digit))]

\* a \div b and the remainder, limb by limb from the top limb of a; the
\* quotient is listed from the top limb down
RECURSIVE DivideLimbs(_, _, _, _)
DivideLimbs(a, b, i, r) ==
    IF i = 0 THEN [quotient |-> <<>>, remainder |-> r]
    ELSE LET step == DivideStep(Trim(<<a[i]>> \o r), b)
             rest == DivideLimbs(a, b, i - 1, step.remainder)
         IN  [quotient |-> <<step.digit>> \o rest.quotient, remainder |-> rest.remainder]

BigDivide(a, b) ==
    LET res == DivideLimbs(a, b, Len(a), <<>>)
    IN  [quotient |-> Trim([i \in 1..Len(a) |-> res.quotient[Len(a) + 1 - i]]),
         remainder |-> res.remainder]

QuotientBits == 64

\* x / y for a float y that is not zero
FloatDivide(x, y) ==
    IF x.m = <<>> THEN FloatZero
    ELSE LET n == ShiftLeft(x.m, QuotientBits)
             res == BigDivide(n, y.m)
         IN  WithSign(x.s * y.s,
                      FloatRound(res.quotient, x.e - QuotientBits - y.e, res.remainder # <<>>))

\* -1, 0, 1 as x < y, x = y, x > y
MagnitudeCmp(x, y) ==
    IF x.m = <<>> /\ y.m = <<>> THEN 0
    ELSE IF x.m = <<>> THEN -1
    ELSE IF y.m = <<>> THEN 1
    ELSE IF x.e < y.e THEN -1
    ELSE IF x.e > y.e THEN 1
    ELSE BigCmp(x.m, y.m)

FloatCmp(x, y) ==
    IF x.m = <<>> /\ y.m = <<>> THEN 0
    ELSE IF x.m = <<>> THEN -y.s
    ELSE IF y.m = <<>> THEN x.s
    ELSE IF x.s # y.s THEN x.s
    ELSE x.s * MagnitudeCmp(x, y)

RECURSIVE TimesAll(_, _)
TimesAll(a, factors) ==
    IF factors = <<>> THEN a ELSE TimesAll(BigMulSmall(a, Head(factors)), Tail(factors))

\* round(x, ndigits), with 10^ndigits given as factors: x is rounded to the
\* nearest multiple of 10^-ndigits (ties to even, on the exact value of x), and
\* the float nearest to that decimal is returned
FloatRoundDecimal(x, factors) ==
    IF x.m = <<>> \/ x.e >= 0 THEN x
    ELSE LET scaled == TimesAll(x.m, factors)
             whole == ShiftRight(scaled, -x.e)
             r == BigSub(scaled, ShiftLeft(whole, -x.e))
             half == BigCmp(ShiftLeft(r, 1), ShiftLeft(<<1>>, -x.e))
             odd == whole # <<>> /\ whole[1] % 2 = 1
             up == half = 1 \/ (half = 0 /\ odd)
             digits == IF up THEN BigAdd(whole, <<1>>) ELSE whole
         IN  WithSign(x.s, FloatDiv(FloatRound(digits, 0, FALSE), factors))

\* ------------------------------------------------------------ LocalAuditor

AuditInit ==
    /\ monitoring_data = <<>>
    /\ monitoring_active = FALSE
    /\ pc = "idle"
    /\ frame = NoFrame
    /\ threads = [k \in ThreadIds |-> NoThread]
    /\ now = 0
    /\ calls = 0
    /\ ret = NoRet

\* an existence check made after the reset of the sample list and of the flag
AuditScriptMissingLate ==
    /\ pc = "idle"
    /\ calls < MaxCalls
    /\ calls' = calls + 1
    /\ monitoring_data' = <<>>
    /\ monitoring_active' = TRUE
    /\ ret' = [NoRet EXCEPT !.kind = "raised", !.op = "audit_script",
                            !.error = "FileNotFoundError"]
    /\ UNCHANGED <<pc, frame, threads, now>>
    /\ UNCHANGED otherThanAudit

\* the sample list of the call before, kept
KeptMonitoringData == monitoring_data

\* self.monitoring_data = []
NewMonitoringData == <<>>

\* audit_script on a path that does not exist: raises before anything else.
AuditScriptMissing ==
    /\ pc = "idle"
    /\ calls < MaxCalls
    /\ calls' = calls + 1
    /\ ret' = [NoRet EXCEPT !.kind = "raised", !.op = "audit_script",
                            !.error = "FileNotFoundError"]
    /\ UNCHANGED <<monitoring_data, monitoring_active, pc, frame, threads, now>>
    /\ UNCHANGED otherThanAudit

\* audit_script on an existing path: reset the sample list, raise the flag,
\* take the initial snapshot (an operating-system reading that only
\* _calculate_emissions uses: its value is drawn there, in CalculateEmissions).
AuditScriptBegin ==
    /\ pc = "idle"
    /\ calls < MaxCalls
    /\ \E d \in Durations :
          frame' = [NoFrame EXCEPT !.op = "audit_script", !.duration = d]
    /\ calls' = calls + 1
    /\ monitoring_data' = NewMonitoringData
    /\ monitoring_active' = TRUE
    /\ now' = 0
    /\ pc' = "start_thread"
    /\ ret' = NoRet
    /\ UNCHANGED threads
    /\ UNCHANGED otherThanAudit

\* threading.Thread(target=self._monitor_resources, ...).start()
AuditStartThread ==
    /\ pc = "start_thread"
    /\ threads' = [threads EXCEPT ![calls] =
                      [NoThread EXCEPT !.pc = "begin", !.duration = frame.duration]]
    /\ frame' = [frame EXCEPT !.started = @ + 1]
    /\ pc' = "spawn"
    /\ UNCHANGED <<monitoring_data, monitoring_active, now, calls, ret>>
    /\ UNCHANGED otherThanAudit

\* start_time = time.time(); subprocess.run starts the child
SpawnChild ==
    /\ pc = "spawn"
    /\ frame' = [frame EXCEPT !.start_time = now, !.children = @ + 1]
    /\ pc' = "running"
    /\ UNCHANGED <<monitoring_data, monitoring_active, threads, now, calls, ret>>
    /\ UNCHANGED otherThanAudit

\* subprocess.run raises at once (the interpreter is not found): except Exception
SpawnFails ==
    /\ pc = "spawn"
    /\ frame' = [frame EXCEPT !.start_time = now,
                              !.execution_successful = FALSE,
                              !.script_errors = "exception"]
    /\ pc' = "ran"
    /\ UNCHANGED <<monitoring_data, monitoring_active, threads, now, calls, ret>>
    /\ UNCHANGED otherThanAudit

RunDeadline == frame.start_time + frame.duration + TimeoutBuffer

\* the child exits by itself, with return code 0 or not
RunExit ==
    /\ pc = "running"
    /\ now <= RunDeadline
    /\ \E ok \in BOOLEAN :
          frame' = [frame EXCEPT !.execution_successful = ok,
                                 !.script_errors = IF ok THEN "" ELSE "stderr"]
    /\ pc' = "ran"
    /\ UNCHANGED <<monitoring_data, monitoring_active, threads, now, calls, ret>>
    /\ UNCHANGED otherThanAudit

\* timeout=duration + 10 expires: subprocess.run kills the child and raises
\* TimeoutExpired, which audit_script catches
\* subprocess.run called without timeout=
RunTimeoutNever ==
    /\ FALSE
    /\ UNCHANGED vars

\* TimeoutExpired not caught: audit_script raises it
RunTimeoutPropagates ==
    /\ pc = "running"
    /\ now >= RunDeadline
    /\ ret' = [NoRet EXCEPT !.kind = "raised", !.op = "audit_script",
                            !.error = "TimeoutExpired", !.killed = TRUE,
                            !.started = frame.started, !.children = frame.children]
    /\ pc' = "idle"
    /\ frame' = NoFrame
    /\ UNCHANGED <<monitoring_data, monitoring_active, threads, now, calls>>
    /\ UNCHANGED otherThanAudit

RunTimeout ==
    /\ pc = "running"
    /\ now >= RunDeadline
    /\ frame' = [frame EXCEPT !.execution_successful = FALSE,
                              !.script_errors = "Script execution timed out",
                              !.killed = TRUE]
    /\ pc' = "ran"
    /\ UNCHANGED <<monitoring_data, monitoring_active, threads, now, calls, ret>>
    /\ UNCHANGED otherThanAudit

\* actual_duration = end_time - start_time; self.monitoring_active = False
StopMonitoring ==
    /\ pc = "ran"
    /\ frame' = [frame EXCEPT !.actual_duration = now - frame.start_time]
    /\ monitoring_active' = FALSE
    /\ pc' = "join"
    /\ UNCHANGED <<monitoring_data, threads, now, calls, ret>>
    /\ UNCHANGED otherThanAudit

\* monitor_thread.join(): returns when the thread has terminated
ThreadJoinedNoWait(k) == TRUE

ThreadJoined(k) == threads[k].pc = "done"

\* a join that does not block
JoinThreadNoBlock ==
    /\ pc = "join"
    /\ pc' = "calc"
    /\ UNCHANGED <<monitoring_data, monitoring_active, frame, threads, now, calls, ret>>
    /\ UNCHANGED otherThanAudit

JoinThread ==
    /\ pc = "join"
    /\ ThreadJoined(calls)
    /\ pc' = "calc"
    /\ UNCHANGED <<monitoring_data, monitoring_active, frame, threads, now, calls, ret>>
    /\ UNCHANGED otherThanAudit

\* final_stats = ...; results = self._calculate_emissions(...)
CalculateEmissions ==
    /\ pc = "calc"
    /\ \E i \in CpuValues, f \in CpuValues :
          frame' = [frame EXCEPT
                       !.avg_cpu_percent = AvgCpuPercent(monitoring_data, i, f),
                       !.read = monitoring_data]
    /\ pc' = "update"
    /\ UNCHANGED <<monitoring_data, monitoring_active, threads, now, calls, ret>>
    /\ UNCHANGED otherThanAudit

\* results.update({... 'monitoring_samples': len(self.monitoring_data) ...}); return
ReturnResults ==
    /\ pc = "update"
    /\ ret' = [kind |-> "result", op |-> "audit_script", error |-> "",
               execution_successful |-> frame.execution_successful,
               script_errors |-> frame.script_errors,
               monitoring_samples |-> Len(monitoring_data),
               avg_cpu_percent |-> frame.avg_cpu_percent,
               started |-> frame.started,
               children |-> frame.children,
               killed |-> frame.killed]
    /\ pc' = "idle"
    /\ frame' = NoFrame
    /\ UNCHANGED <<monitoring_data, monitoring_active, threads, now, calls>>
    /\ UNCHANGED otherThanAudit

\* ---- get_system_baseline

BaselineBegin ==
    /\ pc = "idle"
    /\ calls < MaxCalls
    /\ \E d \in Durations :
          frame' = [NoFrame EXCEPT !.op = "get_system_baseline", !.duration = d]
    /\ calls' = calls + 1
    /\ monitoring_data' = NewMonitoringData
    /\ monitoring_active' = TRUE
    /\ now' = 0
    /\ pc' = "b_start_thread"
    /\ ret' = NoRet
    /\ UNCHANGED threads
    /\ UNCHANGED otherThanAudit

\* monitor_thread.start(); time.sleep(duration) begins
BaselineStartThread ==
    /\ pc = "b_start_thread"
    /\ threads' = [threads EXCEPT ![calls] =
                      [NoThread EXCEPT !.pc = "begin", !.duration = frame.duration]]
    /\ frame' = [frame EXCEPT !.started = @ + 1, !.wake = now + frame.duration]
    /\ pc' = "b_sleep"
    /\ UNCHANGED <<monitoring_data, monitoring_active, now, calls, ret>>
    /\ UNCHANGED otherThanAudit

\* time.sleep(duration) ends; self.monitoring_active = False
BaselineWake ==
    /\ pc = "b_sleep"
    /\ now >= frame.wake
    /\ monitoring_active' = FALSE
    /\ pc' = "b_join"
    /\ UNCHANGED <<monitoring_data, frame, threads, now, calls, ret>>
    /\ UNCHANGED otherThanAudit

BaselineJoin ==
    /\ pc = "b_join"
    /\ ThreadJoined(calls)
    /\ pc' = "b_calc"
    /\ UNCHANGED <<monitoring_data, monitoring_active, frame, threads, now, calls, ret>>
    /\ UNCHANGED otherThanAudit

\* raise RuntimeError("No baseline data collected") or return the averages
BaselineReturn ==
    /\ pc = "b_calc"
    /\ ret' = IF monitoring_data = <<>>
              THEN [NoRet EXCEPT !.kind = "raised", !.op = "get_system_baseline",
                                 !.error = "RuntimeError", !.started = frame.started]
              ELSE [NoRet EXCEPT !.kind = "result", !.op = "get_system_baseline",
                                 !.monitoring_samples = Len(monitoring_data),
                                 !.avg_cpu_percent = AvgCpuPercent(monitoring_data, 0, 0),
                                 !.started = frame.started]
    /\ pc' = "idle"
    /\ frame' = NoFrame
    /\ UNCHANGED <<monitoring_data, monitoring_active, threads, now, calls>>
    /\ UNCHANGED otherThanAudit

\* ---- _monitor_resources, the sampling thread of call k

\* start_time = time.time()
ThreadBegin(k) ==
    /\ threads[k].pc = "begin"
    /\ threads' = [threads EXCEPT ![k].pc = "check", ![k].start_time = now]
    /\ UNCHANGED <<monitoring_data, monitoring_active, pc, frame, now, calls, ret>>
    /\ UNCHANGED otherThanAudit

\* while self.monitoring_active and (time.time() - start_time) < duration
LoopCondition(k) ==
    monitoring_active /\ (now - threads[k].start_time) < threads[k].duration

ThreadCheck(k) ==
    /\ threads[k].pc = "check"
    /\ threads' = [threads EXCEPT ![k] = IF LoopCondition(k)
                                          THEN [@ EXCEPT !.pc = "sample"]
                                          ELSE DoneThread]
    /\ UNCHANGED <<monitoring_data, monitoring_active, pc, frame, now, calls, ret>>
    /\ UNCHANGED otherThanAudit

\* stats = self._get_system_stats(...); self.monitoring_data.append(stats); sleep
ThreadSample(k) ==
    /\ threads[k].pc = "sample"
    /\ \E c \in CpuValues :
          monitoring_data' = Append(monitoring_data, [cpu_percent |-> c, by |-> k])
    /\ threads' = [threads EXCEPT ![k].pc = "sleep", ![k].wake = now + SampleInterval]
    /\ UNCHANGED <<monitoring_active, pc, frame, now, calls, ret>>
    /\ UNCHANGED otherThanAudit

\* _get_system_stats raises: the except branch logs and sleeps
ThreadSampleFails(k) ==
    /\ threads[k].pc = "sample"
    /\ threads' = [threads EXCEPT ![k].pc = "sleep", ![k].wake = now + SampleInterval]
    /\ UNCHANGED <<monitoring_data, monitoring_active, pc, frame, now, calls, ret>>
    /\ UNCHANGED otherThanAudit

\* time.sleep(sample_interval) ends
ThreadWake(k) ==
    /\ threads[k].pc = "sleep"
    /\ now >= threads[k].wake
    /\ threads' = [threads EXCEPT ![k].pc = "check"]
    /\ UNCHANGED <<monitoring_data, monitoring_active, pc, frame, now, calls, ret>>
    /\ UNCHANGED otherThanAudit

ThreadStep(k) ==
    \/ ThreadBegin(k)
    \/ ThreadCheck(k)
    \/ ThreadSample(k)
    \/ ThreadSampleFails(k)
    \/ ThreadWake(k)

\* ---- time

\* the instants somebody is waiting for
PendingDeadlines ==
    {threads[k].wake : k \in {j \in ThreadIds : threads[j].pc = "sleep"}}
        \cup (IF pc = "running" THEN {RunDeadline} ELSE {})
        \cup (IF pc = "b_sleep" THEN {frame.wake} ELSE {})

\* a second passes
Tick ==
    /\ \E d \in PendingDeadlines : now < d
    /\ now' = now + 1
    /\ UNCHANGED <<monitoring_data, monitoring_active, pc, frame, threads, calls, ret>>
    /\ UNCHANGED otherThanAudit

ParentStep ==
    \/ AuditStartThread
    \/ SpawnChild
    \/ SpawnFails
    \/ RunTimeout
    \/ StopMonitoring
    \/ JoinThread
    \/ CalculateEmissions
    \/ ReturnResults
    \/ BaselineStartThread
    \/ BaselineWake
    \/ BaselineJoin
    \/ BaselineReturn

AuditNext ==
    \/ AuditScriptMissing
    \/ AuditScriptBegin
    \/ BaselineBegin
    \/ RunExit
    \/ ParentStep
    \/ \E k \in ThreadIds : ThreadStep(k)
    \/ Tick

\* ------------------------------------------------------ monitor_script_co2

JoinTimeout == 2
SampleIntervals == {1, 3}

NoMonitorFrame ==
    [duration |-> 0, sample_interval |-> 0, start_time |-> 0, join_deadline |-> 0,
     execution_successful |-> FALSE, killed |-> FALSE, avg_cpu_percent |-> 0,
     read |-> <<>>]
NoMonitorRet ==
    [kind |-> "none", execution_successful |-> FALSE, monitoring_samples |-> 0,
     avg_cpu_percent |-> 0]
NoMonitorThread == [pc |-> "none", wake |-> 0]

MonitorInit ==
    /\ m_data = <<>>
    /\ m_active = FALSE
    /\ m_pc = "idle"
    /\ m_frame = NoMonitorFrame
    /\ m_thread = NoMonitorThread
    /\ m_now = 0
    /\ m_ret = NoMonitorRet

\* calculate_co2_from_metrics, the part that reads the sample list
MonitorAvgCpu(data) ==
    IF data = <<>> THEN 0 ELSE (SumCpu(data) * 100) \div Len(data)

\* monitoring_data = []; monitoring_active = True
MonitorBegin ==
    /\ m_pc = "idle"
    /\ \E d \in Durations, si \in SampleIntervals :
          m_frame' = [NoMonitorFrame EXCEPT !.duration = d, !.sample_interval = si]
    /\ m_data' = <<>>
    /\ m_active' = TRUE
    /\ m_pc' = "start_thread"
    /\ UNCHANGED <<m_thread, m_now, m_ret>>
    /\ UNCHANGED otherThanMonitor

\* threading.Thread(target=collect_metrics, daemon=True).start()
MonitorStartThread ==
    /\ m_pc = "start_thread"
    /\ m_thread' = [NoMonitorThread EXCEPT !.pc = "check"]
    /\ m_pc' = "spawn"
    /\ UNCHANGED <<m_data, m_active, m_frame, m_now, m_ret>>
    /\ UNCHANGED otherThanMonitor

\* start_time = time.time(); subprocess.Popen(...)
MonitorSpawn ==
    /\ m_pc = "spawn"
    /\ m_frame' = [m_frame EXCEPT !.start_time = m_now]
    /\ m_pc' = "communicate"
    /\ UNCHANGED <<m_data, m_active, m_thread, m_now, m_ret>>
    /\ UNCHANGED otherThanMonitor

\* Popen raises: the outer except Exception
MonitorSpawnFails ==
    /\ m_pc = "spawn"
    /\ m_frame' = [m_frame EXCEPT !.start_time = m_now, !.execution_successful = FALSE]
    /\ m_pc' = "ran"
    /\ UNCHANGED <<m_data, m_active, m_thread, m_now, m_ret>>
    /\ UNCHANGED otherThanMonitor

MonitorDeadline == m_frame.start_time + m_frame.duration

\* communicate(timeout=duration) returns: the child has exited
MonitorExit ==
    /\ m_pc = "communicate"
    /\ m_now <= MonitorDeadline
    /\ \E ok \in BOOLEAN : m_frame' = [m_frame EXCEPT !.execution_successful = ok]
    /\ m_pc' = "ran"
    /\ UNCHANGED <<m_data, m_active, m_thread, m_now, m_ret>>
    /\ UNCHANGED otherThanMonitor

\* TimeoutExpired: script_process.kill(); communicate()
MonitorTimeout ==
    /\ m_pc = "communicate"
    /\ m_now >= MonitorDeadline
    /\ m_frame' = [m_frame EXCEPT !.execution_successful = FALSE, !.killed = TRUE]
    /\ m_pc' = "ran"
    /\ UNCHANGED <<m_data, m_active, m_thread, m_now, m_ret>>
    /\ UNCHANGED otherThanMonitor

\* monitoring_active = False; monitor_thread.join(timeout=2) begins
MonitorStop ==
    /\ m_pc = "ran"
    /\ m_active' = FALSE
    /\ m_frame' = [m_frame EXCEPT !.join_deadline = m_now + JoinTimeout]
    /\ m_pc' = "join"
    /\ UNCHANGED <<m_data, m_thread, m_now, m_ret>>
    /\ UNCHANGED otherThanMonitor

\* monitor_thread.join(timeout=2) returns: the thread has terminated, or the two
\* seconds are over
MonitorJoin ==
    /\ m_pc = "join"
    /\ \/ m_thread.pc = "done"
       \/ m_now >= m_frame.join_deadline
    /\ m_pc' = "calc"
    /\ UNCHANGED <<m_data, m_active, m_frame, m_thread, m_now, m_ret>>
    /\ UNCHANGED otherThanMonitor

\* results = calculate_co2_from_metrics(monitoring_data, ...)
MonitorCalc ==
    /\ m_pc = "calc"
    /\ m_frame' = [m_frame EXCEPT !.avg_cpu_percent = MonitorAvgCpu(m_data),
                                  !.read = m_data]
    /\ m_pc' = "update"
    /\ UNCHANGED <<m_data, m_active, m_thread, m_now, m_ret>>
    /\ UNCHANGED otherThanMonitor

\* results.update({... 'monitoring_samples': len(monitoring_data) ...}); return
MonitorReturn ==
    /\ m_pc = "update"
    /\ m_ret' = [kind |-> "result",
                 execution_successful |-> m_frame.execution_successful,
                 monitoring_samples |-> Len(m_data),
                 avg_cpu_percent |-> m_frame.avg_cpu_percent]
    /\ m_pc' = "returned"
    /\ UNCHANGED <<m_data, m_active, m_frame, m_thread, m_now>>
    /\ UNCHANGED otherThanMonitor

\* ---- collect_metrics, the sampling thread

\* while monitoring_active
CollectCheck ==
    /\ m_thread.pc = "check"
    /\ m_thread' = IF m_active THEN [m_thread EXCEPT !.pc = "sample"]
                               ELSE [NoMonitorThread EXCEPT !.pc = "done"]
    /\ UNCHANGED <<m_data, m_active, m_pc, m_frame, m_now, m_ret>>
    /\ UNCHANGED otherThanMonitor

\* monitoring_data.append(metrics); time.sleep(sample_interval) begins
CollectSample ==
    /\ m_thread.pc = "sample"
    /\ \E c \in CpuValues : m_data' = Append(m_data, [cpu_percent |-> c, by |-> 1])
    /\ m_thread' = [pc |-> "sleep", wake |-> m_now + m_frame.sample_interval]
    /\ UNCHANGED <<m_active, m_pc, m_frame, m_now, m_ret>>
    /\ UNCHANGED otherThanMonitor

\* a psutil call raises: the except branch prints and sleeps
CollectSampleFails ==
    /\ m_thread.pc = "sample"
    /\ m_thread' = [pc |-> "sleep", wake |-> m_now + m_frame.sample_interval]
    /\ UNCHANGED <<m_data, m_active, m_pc, m_frame, m_now, m_ret>>
    /\ UNCHANGED otherThanMonitor

\* time.sleep(sample_interval) ends
CollectWake ==
    /\ m_thread.pc = "sleep"
    /\ m_now >= m_thread.wake
    /\ m_thread' = [m_thread EXCEPT !.pc = "check"]
    /\ UNCHANGED <<m_data, m_active, m_pc, m_frame, m_now, m_ret>>
    /\ UNCHANGED otherThanMonitor

\* the instants somebody is waiting for
MonitorPending ==
    (IF m_thread.pc = "sleep" THEN {m_thread.wake} ELSE {})
        \cup (IF m_pc = "communicate" THEN {MonitorDeadline} ELSE {})
        \cup (IF m_pc = "join" /\ m_thread.pc # "done" THEN {m_frame.join_deadline} ELSE {})

\* a second passes: only while the caller and the thread both wait, and not past
\* an instant one of them waits for (steps that do not wait take no time)
MonitorTick ==
    /\ m_pc \in {"communicate", "join", "returned"}
    /\ m_thread.pc \in {"sleep", "done"}
    /\ MonitorPending # {}
    /\ \A d \in MonitorPending : m_now < d
    /\ m_now' = m_now + 1
    /\ UNCHANGED <<m_data, m_active, m_pc, m_frame, m_thread, m_ret>>
    /\ UNCHANGED otherThanMonitor

MonitorNext ==
    \/ MonitorBegin
    \/ MonitorStartThread
    \/ MonitorSpawn
    \/ MonitorSpawnFails
    \/ MonitorExit
    \/ MonitorTimeout
    \/ MonitorStop
    \/ MonitorJoin
    \/ MonitorCalc
    \/ MonitorReturn
    \/ CollectCheck
    \/ CollectSample
    \/ CollectSampleFails
    \/ CollectWake
    \/ MonitorTick

\* ------------------------------------------------------------ PlanGenerator

\* co2_reduction is kept in tenths of a percent (15.0 is 150), so that the
\* scalings by 1.2 and 0.8 stay exact.
Action(title, category, co2, effort, weeks) ==
    [title |-> title, category |-> category, co2_reduction |-> co2,
     effort_level |-> effort, timeline_weeks |-> weeks]

ACTION_TEMPLATES ==
    [aws |->
        <<Action("Optimize EC2 Instance Types", "infrastructure", 150, "medium", 2),
          Action("Implement Auto Scaling", "infrastructure", 250, "high", 4),
          Action("Migrate to ARM-based Instances", "infrastructure", 200, "medium", 3),
          Action("Optimize S3 Storage Classes", "storage", 100, "low", 1),
          Action("Schedule Non-Critical Workloads", "scheduling", 120, "medium", 2)>>,
     local |->
        <<Action("Optimize Algorithm Efficiency", "code", 300, "high", 6),
          Action("Implement Caching Strategies", "performance", 200, "medium", 3),
          Action("Optimize Database Queries", "database", 150, "medium", 2),
          Action("Reduce Memory Usage", "memory", 100, "medium", 4)>>,
     personal |->
        <<Action("Reduce Meat Consumption", "diet", 400, "medium", 8),
          Action("Optimize Transportation", "transport", 350, "low", 2),
          Action("Reduce Energy Consumption", "energy", 250, "low", 1),
          Action("Buy Local and Seasonal", "consumption", 150, "low", 2)>>]

\* the dictionary's keys in insertion order
Areas == <<"aws", "local", "personal">>

FocusAreas == {"aws", "local", "personal", "all"}
\* target_reduction, in tenths of a percent
Targets == {0, 250, 2000}
Timeframes == {1, 12}

\* _load_baseline_data: the sums over the audit files found, and the monthly total
Baseline(aws, local, personal) ==
    [aws_co2_kg_per_hour |-> aws,
     local_co2_kg_per_execution |-> local,
     personal_co2_kg_per_month |-> personal,
     total_monthly_co2_kg |-> aws * 24 * 30 + local * 100 + personal]

Baselines ==
    {Baseline(a, l, p) : a \in {0, 1, 2}, l \in {0, 1}, p \in {0, 50}}

NoPlan ==
    [made |-> FALSE, target_reduction |-> 0, timeframe_months |-> 0,
     focus_area |-> "", available |-> <<>>, candidates |-> <<>>,
     actions |-> <<>>,
     timeline |-> <<>>, estimated_reduction |-> 0]

\* the data directory holds the audit files the baseline is summed from; start
\* is the set of baselines the plans are generated for
PlanInit(start) ==
    /\ action_templates = ACTION_TEMPLATES
    /\ baseline \in start
    /\ plan_prev = NoPlan
    /\ plan_last = NoPlan

\* _action_applicable
ActionApplicable(action, b) ==
    IF action.category \in {"infrastructure", "storage", "scheduling"}
    THEN b.aws_co2_kg_per_hour > 0
    ELSE IF action.category \in {"code", "performance", "database", "memory"}
         THEN b.local_co2_kg_per_execution > 0
         ELSE TRUE

\* the scaling of co2_reduction by the size of the baseline
ScaledReduction(co2, b) ==
    IF b.total_monthly_co2_kg > 0
    THEN IF b.total_monthly_co2_kg > 1000
         THEN (co2 * 12) \div 10
         ELSE IF b.total_monthly_co2_kg < 100
              THEN (co2 * 8) \div 10
              ELSE co2
    ELSE co2

\* the adjustment written straight into the template (no copy taken)
AdjustActionInPlace(action, b) ==
    LET scaled == [action EXCEPT !.co2_reduction = ScaledReduction(@, b)]
    IN  [adjusted |-> scaled, original |-> scaled]

\* _adjust_action_for_baseline: what it returns (adjusted), and what the object
\* it was handed is afterwards (original): it works on action.copy()
AdjustActionForBaseline(action, b) ==
    [adjusted |-> [action EXCEPT !.co2_reduction = ScaledReduction(@, b)],
     original |-> action]

\* the templates _get_available_actions walks over, as <<area, index>>
RECURSIVE AreaRefs(_, _, _)
AreaRefs(table, area, i) ==
    IF i > Len(table[area]) THEN <<>>
    ELSE <<(<<area, i>>)>> \o AreaRefs(table, area, i + 1)

RECURSIVE AllRefs(_, _)
AllRefs(table, k) ==
    IF k > Len(Areas) THEN <<>>
    ELSE AreaRefs(table, Areas[k], 1) \o AllRefs(table, k + 1)

FocusRefs(table, focus) ==
    IF focus = "all" THEN AllRefs(table, 1)
    ELSE IF focus \in DOMAIN table THEN AreaRefs(table, focus, 1) ELSE <<>>

\* the loop of _get_available_actions: the filtered list, and the table after it
RECURSIVE FilterActions(_, _, _, _)
FilterActions(table, refs, b, acc) ==
    IF refs = <<>> THEN [actions |-> acc, table |-> table]
    ELSE LET area == Head(refs)[1]
             i == Head(refs)[2]
             action == table[area][i]
         IN  IF ActionApplicable(action, b)
             THEN LET adj == AdjustActionForBaseline(action, b)
                  IN  FilterActions([table EXCEPT ![area][i] = adj.original],
                                    Tail(refs), b, Append(acc, adj.adjusted))
             ELSE FilterActions(table, Tail(refs), b, acc)

GetAvailableActions(table, focus, b) ==
    FilterActions(table, FocusRefs(table, focus), b, <<>>)

EffortScore(action) ==
    CASE action.effort_level = "low" -> 1
      [] action.effort_level = "medium" -> 2
      [] action.effort_level = "high" -> 3
      [] OTHER -> 2

\* timeline_score <= timeframe_months, with timeline_score = timeline_weeks / 4
FitsTimeframe(action, timeframe_months) ==
    action.timeline_weeks <= 4 * timeframe_months

\* co2_reduction / effort_score, compared by cross-multiplication
RatioGreater(a, b) ==
    a.co2_reduction * EffortScore(b) > b.co2_reduction * EffortScore(a)

\* impact_effort_ratio = co2_reduction / (effort_score * timeline_score),
\* compared by cross-multiplication (every factor is positive)
ScoreGreater(a, b) ==
    a.co2_reduction * (EffortScore(b) * b.timeline_weeks)
        > b.co2_reduction * (EffortScore(a) * a.timeline_weeks)

\* the candidates: the actions that fit the timeframe, in the order given
RECURSIVE ScoredActions(_, _)
ScoredActions(available, timeframe_months) ==
    IF available = <<>> THEN <<>>
    ELSE (IF FitsTimeframe(Head(available), timeframe_months)
          THEN <<Head(available)>> ELSE <<>>)
         \o ScoredActions(Tail(available), timeframe_months)

InsertAt(r, p, x) == SubSeq(r, 1, p - 1) \o <<x>> \o SubSeq(r, p, Len(r))

CountGreater(x, r) == Cardinality({i \in 1..Len(r) : ScoreGreater(r[i], x)})
CountEqual(x, r) ==
    Cardinality({i \in 1..Len(r) : ~ScoreGreater(r[i], x) /\ ~ScoreGreater(x, r[i])})

\* a sort that places equal scores in any order
InsertPositionsUnstable(x, r) ==
    (CountGreater(x, r) + 1)..(CountGreater(x, r) + CountEqual(x, r) + 1)

\* where list.sort(key=score, reverse=True) puts x among r, the sorted elements
\* that followed x in the list: after every greater score and, the sort being
\* stable, before every equal one
InsertPositions(x, r) == {CountGreater(x, r) + 1}

\* the list left in the order it was built in
SortSkipped(scored) == {scored}

\* the orders scored_actions.sort(key=..., reverse=True) can leave
RECURSIVE SortResults(_)
SortResults(scored) ==
    IF scored = <<>> THEN {<<>>}
    ELSE UNION {{InsertAt(r, p, Head(scored)) : p \in InsertPositions(Head(scored), r)}
                : r \in SortResults(Tail(scored))}

\* a loop that accepts an action only if the target is still not reached with it
RECURSIVE SelectLoopShy(_, _, _, _)
SelectLoopShy(sorted, target, cumulative, selected) ==
    IF sorted = <<>> THEN selected
    ELSE LET action == Head(sorted)
             take == cumulative + action.co2_reduction < target
             cum == IF take THEN cumulative + action.co2_reduction ELSE cumulative
             sel == IF take THEN Append(selected, action) ELSE selected
         IN  IF cum * 2 > target * 3 THEN sel
             ELSE SelectLoopShy(Tail(sorted), target, cum, sel)

\* a loop that accepts every action it reaches: only the break ends it
RECURSIVE SelectLoopEager(_, _, _, _)
SelectLoopEager(sorted, target, cumulative, selected) ==
    IF sorted = <<>> THEN selected
    ELSE LET action == Head(sorted)
             cum == cumulative + action.co2_reduction
             sel == Append(selected, action)
         IN  IF cum * 2 > target * 3 THEN sel
             ELSE SelectLoopEager(Tail(sorted), target, cum, sel)

\* the selection loop of _select_actions; cumulative > target * 1.5 is compared
\* as 2 * cumulative > 3 * target
RECURSIVE SelectLoop(_, _, _, _)
SelectLoop(sorted, target, cumulative, selected) ==
    IF sorted = <<>> THEN selected
    ELSE LET action == Head(sorted)
             take == cumulative < target
             cum == IF take THEN cumulative + action.co2_reduction ELSE cumulative
             sel == IF take THEN Append(selected, action) ELSE selected
         IN  IF cum * 2 > target * 3 THEN sel
             ELSE SelectLoop(Tail(sorted), target, cum, sel)

\* _select_actions: every list it can return
SelectActions(available, target, timeframe_months) ==
    {SelectLoop(sorted, target, 0, <<>>)
        : sorted \in SortResults(ScoredActions(available, timeframe_months))}

\* sorted(actions, key=timeline_weeks): ascending and stable
RECURSIVE SortByWeeks(_)
SortByWeeks(actions) ==
    IF actions = <<>> THEN <<>>
    ELSE LET r == SortByWeeks(Tail(actions))
             x == Head(actions)
             p == Cardinality({i \in 1..Len(r) : r[i].timeline_weeks < x.timeline_weeks}) + 1
         IN  InsertAt(r, p, x)

\* the phases of _create_timeline, each with the milestone that ends it
RECURSIVE Phases(_, _, _)
Phases(sorted, current_week, phase_num) ==
    IF sorted = <<>> THEN <<>>
    ELSE <<[phase_number |-> phase_num,
            start_week |-> current_week,
            end_week |-> current_week + Head(sorted).timeline_weeks,
            action |-> Head(sorted).title,
            expected_co2_reduction |-> Head(sorted).co2_reduction]>>
         \o Phases(Tail(sorted), current_week + Head(sorted).timeline_weeks, phase_num + 1)

CreateTimeline(actions) == Phases(SortByWeeks(actions), 0, 1)

RECURSIVE TotalReduction(_)
TotalReduction(actions) ==
    IF actions = <<>> THEN 0
    ELSE Head(actions).co2_reduction + TotalReduction(Tail(actions))

\* generate_plan: load the baseline, filter and adjust the templates, select,
\* lay out the timeline, compute the metrics
GeneratePlan ==
    /\ \E target \in Targets, months \in Timeframes, focus \in FocusAreas :
          LET got == GetAvailableActions(action_templates, focus, baseline)
          IN  /\ \E selected \in SelectActions(got.actions, target, months) :
                    plan_last' =
                        [made |-> TRUE, target_reduction |-> target,
                         timeframe_months |-> months, focus_area |-> focus,
                         available |-> got.actions,
                         candidates |-> ScoredActions(got.actions, months),
                         actions |-> selected,
                         timeline |-> CreateTimeline(selected),
                         estimated_reduction |-> TotalReduction(selected)]
              /\ action_templates' = got.table
    /\ plan_prev' = plan_last
    /\ UNCHANGED baseline
    /\ UNCHANGED otherThanPlan

PlanNext == GeneratePlan

\* ------------------------------------------- AWSAuditor.audit_all_services

ServiceNames == {"ec2", "rds", "lambda", "s3"}
\* co2_kg_per_hour totals an audit can report
Co2Values == {0, 1, 3}

\* the entry audit_all_services substitutes when an audit raises
DefaultEntry == [error |-> "str(e)", co2_kg_per_hour |-> 0]
\* what audit_ec2 itself returns when describe_instances or a record fails
Ec2ErrorEntry == [service |-> "ec2", error |-> "AWS API error", co2_kg_per_hour |-> 0]
\* what an audit returns when nothing fails
AuditEntry(co2) == [service |-> "aws", co2_kg_per_hour |-> co2]

\* a dictionary with one more key
Put(d, key, value) == [k \in DOMAIN d \cup {key} |-> IF k = key THEN value ELSE d[k]]
EmptyDict == [k \in {} |-> DefaultEntry]

AwsInit ==
    /\ aws_pc = "idle"
    /\ aws_results = EmptyDict
    /\ aws_raised = {}
    /\ aws_audited = [s \in ServiceNames |-> 0]

\* results = {}
AuditAllBegin ==
    /\ aws_pc \in {"idle", "returned"}
    /\ aws_results' = EmptyDict
    /\ aws_raised' = {}
    /\ aws_audited' = [s \in ServiceNames |-> 0]
    /\ aws_pc' = "ec2"
    /\ UNCHANGED otherThanAws

\* what a call of audit_<service> can do: return one of the entries, or raise
Outcomes(entries) ==
    {[raises |-> FALSE, entry |-> e] : e \in entries}
        \cup {[raises |-> TRUE, entry |-> DefaultEntry]}

\* what an audit returns when it does not raise
AuditOutcomes == {AuditEntry(c) : c \in Co2Values}

\* the assignment without the try: the exception leaves audit_all_services
AuditUncaught(service, next, o) ==
    IF o.raises
    THEN /\ aws_raised' = aws_raised \cup {service}
         /\ aws_results' = aws_results
         /\ aws_pc' = "raised"
    ELSE /\ aws_raised' = aws_raised
         /\ aws_results' = Put(aws_results, service, o.entry)
         /\ aws_pc' = next

\* try: results[service] = self.audit_<service>(estimate_only)
\* except Exception as e: results[service] = {"error": str(e), "co2_kg_per_hour": 0}
TryAudit(service, next, o) ==
    /\ IF o.raises
       THEN /\ aws_raised' = aws_raised \cup {service}
            /\ aws_results' = Put(aws_results, service, DefaultEntry)
       ELSE /\ aws_raised' = aws_raised
            /\ aws_results' = Put(aws_results, service, o.entry)
    /\ aws_pc' = next

\* audit_ec2 raises only when the client cannot be created; an API error or a bad
\* record is turned into an error entry inside audit_ec2
AuditEc2Step ==
    /\ aws_pc = "ec2"
    /\ aws_audited' = [aws_audited EXCEPT !["ec2"] = @ + 1]
    /\ \E o \in Outcomes(AuditOutcomes \cup {Ec2ErrorEntry}) : TryAudit("ec2", "rds", o)
    /\ UNCHANGED otherThanAws

\* audit_rds, audit_lambda, audit_s3 re-raise ClientError and let the rest through
AuditRdsStep ==
    /\ aws_pc = "rds"
    /\ aws_audited' = [aws_audited EXCEPT !["rds"] = @ + 1]
    /\ \E o \in Outcomes(AuditOutcomes) : TryAudit("rds", "lambda", o)
    /\ UNCHANGED otherThanAws

AuditLambdaStep ==
    /\ aws_pc = "lambda"
    /\ aws_audited' = [aws_audited EXCEPT !["lambda"] = @ + 1]
    /\ \E o \in Outcomes(AuditOutcomes) : TryAudit("lambda", "s3", o)
    /\ UNCHANGED otherThanAws

AuditS3Step ==
    /\ aws_pc = "s3"
    /\ aws_audited' = [aws_audited EXCEPT !["s3"] = @ + 1]
    /\ \E o \in Outcomes(AuditOutcomes) : TryAudit("s3", "return", o)
    /\ UNCHANGED otherThanAws

\* return results
AuditAllReturn ==
    /\ aws_pc = "return"
    /\ aws_pc' = "returned"
    /\ UNCHANGED <<aws_results, aws_raised, aws_audited>>
    /\ UNCHANGED otherThanAws

AwsNext ==
    \/ AuditAllBegin
    \/ AuditEc2Step
    \/ AuditRdsStep
    \/ AuditLambdaStep
    \/ AuditS3Step
    \/ AuditAllReturn

\* ------------------------------------------- AWSAuditor.__init__, audit_ec2

\* a decimal literal of the source, n / 10^6, as the float the parser makes of it
Millionths(n) == FloatDiv(FloatFromInt(n), <<1000, 1000>>)

KnownRegions ==
    {"us-east-1", "us-east-2", "us-west-1", "us-west-2", "eu-west-1",
     "eu-central-1", "ap-southeast-1", "ap-northeast-1"}

\* region strings the table does not list
OtherRegions == {"eu-north-1", "local"}

REGION_CARBON_INTENSITY ==
    [r \in KnownRegions |->
        CASE r = "us-east-1" -> Millionths(415)
          [] r = "us-east-2" -> Millionths(523)
          [] r = "us-west-1" -> Millionths(351)
          [] r = "us-west-2" -> Millionths(351)
          [] r = "eu-west-1" -> Millionths(316)
          [] r = "eu-central-1" -> Millionths(338)
          [] r = "ap-southeast-1" -> Millionths(493)
          [] r = "ap-northeast-1" -> Millionths(506)]

\* the instance types of the fleet; "z1.other" is a type the power table lacks
InstanceTypes == <<"m5.large", "z1.other">>

INSTANCE_POWER_CONSUMPTION == [t \in {"m5.large"} |-> 80]

InstanceStates == {"pending", "running", "stopped", "terminated"}

\* dict.get(key, default)
Get(table, key, default) == IF key \in DOMAIN table THEN table[key] ELSE default

\* a lookup without the default: a region the table lacks gets no value
CarbonIntensityKnownOnly(region) ==
    IF region \in DOMAIN REGION_CARBON_INTENSITY
    THEN REGION_CARBON_INTENSITY[region] ELSE FloatZero

\* self.REGION_CARBON_INTENSITY.get(region, 0.0004)
CarbonIntensity(region) == Get(REGION_CARBON_INTENSITY, region, Millionths(400))

\* AWSAuditor.__init__
AWSAuditor(region) == [region |-> region, carbon_intensity |-> CarbonIntensity(region)]

EmptyFleet == [t \in {"m5.large", "z1.other"} |-> [st \in InstanceStates |-> 0]]

RECURSIVE FleetSizeFrom(_, _)
FleetSizeFrom(fleet, k) ==
    IF k > Len(InstanceTypes) THEN 0
    ELSE LET t == InstanceTypes[k]
         IN  fleet[t]["pending"] + fleet[t]["running"] + fleet[t]["stopped"]
                 + fleet[t]["terminated"] + FleetSizeFrom(fleet, k + 1)

FleetSize(fleet) == FleetSizeFrom(fleet, 1)

NoReport == [made |-> FALSE]

Ec2Init(regions) ==
    /\ auditors \in {<<>>} \cup {<<AWSAuditor(r)>> : r \in regions}
    /\ ec2_fleet = EmptyFleet
    /\ ec2_report = NoReport

\* auditor = AWSAuditor(region=...)
NewAuditor ==
    /\ Len(auditors) < MaxAuditors
    /\ \E region \in KnownRegions \cup OtherRegions :
          auditors' = Append(auditors, AWSAuditor(region))
    /\ UNCHANGED <<ec2_fleet, ec2_report>>
    /\ UNCHANGED otherThanEc2

\* ---- the account: what happens to instances between audits (the caller has
\* the report of one audit before the account moves on)

Move(fleet, t, from, to) ==
    [fleet EXCEPT ![t][from] = @ - 1, ![t][to] = @ + 1]

\* ec2.run_instances: a new instance, pending
RunInstances ==
    /\ ec2_report = NoReport
    /\ FleetSize(ec2_fleet) < MaxInstances
    /\ \E k \in 1..Len(InstanceTypes) :
          ec2_fleet' = [ec2_fleet EXCEPT ![InstanceTypes[k]]["pending"] = @ + 1]
    /\ UNCHANGED <<auditors, ec2_report>>
    /\ UNCHANGED otherThanEc2

\* pending -> running, running -> stopped, stopped -> pending, any -> terminated
InstanceChanges ==
    /\ ec2_report = NoReport
    /\ \E k \in 1..Len(InstanceTypes), from \in InstanceStates, to \in InstanceStates :
          /\ ec2_fleet[InstanceTypes[k]][from] > 0
          /\ \/ from = "pending" /\ to = "running"
             \/ from = "running" /\ to = "stopped"
             \/ from = "stopped" /\ to = "pending"
             \/ from # "terminated" /\ to = "terminated"
          /\ ec2_fleet' = Move(ec2_fleet, InstanceTypes[k], from, to)
    /\ UNCHANGED <<auditors, ec2_report>>
    /\ UNCHANGED otherThanEc2

\* a terminated instance is no longer listed
InstanceForgotten ==
    /\ ec2_report = NoReport
    /\ \E k \in 1..Len(InstanceTypes) :
          /\ ec2_fleet[InstanceTypes[k]]["terminated"] > 0
          /\ ec2_fleet' = [ec2_fleet EXCEPT ![InstanceTypes[k]]["terminated"] = @ - 1]
    /\ UNCHANGED <<auditors, ec2_report>>
    /\ UNCHANGED otherThanEc2

\* ---- audit_ec2

RECURSIVE Repeat(_, _)
Repeat(x, n) == IF n = 0 THEN <<>> ELSE <<x>> \o Repeat(x, n - 1)

RECURSIVE ListInstances(_, _, _)
ListInstances(fleet, states, k) ==
    IF k > Len(InstanceTypes) THEN <<>>
    ELSE LET t == InstanceTypes[k]
             of(st) == IF st \in states
                       THEN Repeat([InstanceType |-> t, State |-> st], fleet[t][st])
                       ELSE <<>>
         IN  of("pending") \o of("running") \o of("stopped") \o of("terminated")
                 \o ListInstances(fleet, states, k + 1)

\* describe_instances with no filter: every instance of the account
DescribeAllInstances(fleet, values) == ListInstances(fleet, InstanceStates, 1)

\* ec2.describe_instances(Filters=[{"Name": "instance-state-name", "Values": values}])
DescribeInstances(fleet, values) == ListInstances(fleet, values, 1)

\* the record of one instance
InstanceData(self, instance) ==
    LET power_watts == Get(INSTANCE_POWER_CONSUMPTION, instance.InstanceType, 50)
        power_kwh == FloatDiv(FloatFromInt(power_watts), <<1000>>)
    IN  [instance_type |-> instance.InstanceType,
         state |-> instance.State,
         power_watts |-> power_watts,
         co2_kg_per_hour |-> FloatMul(power_kwh, self.carbon_intensity)]

\* a loop that keeps the last instance's value instead of adding it
RECURSIVE AuditLoopOverwrites(_, _, _, _)
AuditLoopOverwrites(self, described, instances, total_co2_per_hour) ==
    IF described = <<>>
    THEN [instances |-> instances, total_co2_per_hour |-> total_co2_per_hour]
    ELSE LET instance_data == InstanceData(self, Head(described))
         IN  AuditLoopOverwrites(self, Tail(described), Append(instances, instance_data),
                                 instance_data.co2_kg_per_hour)

\* the loop over the reservations: the records, and the running total
RECURSIVE AuditLoop(_, _, _, _)
AuditLoop(self, described, instances, total_co2_per_hour) ==
    IF described = <<>>
    THEN [instances |-> instances, total_co2_per_hour |-> total_co2_per_hour]
    ELSE LET instance_data == InstanceData(self, Head(described))
         IN  AuditLoop(self, Tail(described), Append(instances, instance_data),
                       FloatAdd(total_co2_per_hour, instance_data.co2_kg_per_hour))

\* what a call returned, and what a call that raised left to its caller
Ec2Returned(report) == [made |-> TRUE, raised |-> ""] @@ report
Ec2Raised(exception) == [made |-> TRUE, raised |-> exception]

\* the except branches of audit_ec2: ClientError, and any other exception
Ec2ErrorReport(self, error) ==
    [region |-> self.region, error |-> error, total_instances |-> 0,
     instances |-> <<>>, co2_kg_per_hour |-> FloatZero]

\* audit_ec2. failure says what goes wrong: nothing, self.session.client("ec2")
\* raising (it is called before the try block, so the exception leaves
\* audit_ec2), a ClientError inside the try block, or any other exception
\* inside it (describe_instances, or a record without a key the loop reads).
audit_ec2(self, fleet, failure) ==
    IF failure = "client" THEN Ec2Raised("client")
    ELSE IF failure # "none" THEN Ec2Returned(Ec2ErrorReport(self, failure))
    ELSE LET done == AuditLoop(self, DescribeInstances(fleet, {"running"}), <<>>, FloatZero)
         IN  Ec2Returned([region |-> self.region, error |-> "",
                          total_instances |-> Len(done.instances),
                          instances |-> done.instances,
                          co2_kg_per_hour |-> done.total_co2_per_hour])

Ec2Failures == {"none", "client", "AWS API error", "Unexpected error"}

\* one call of audit_ec2 on one of the auditors. The account is audited once in
\* each of its states (a second audit of the same fleet reports the same).
AuditEc2 ==
    /\ ec2_report = NoReport
    /\ \E i \in 1..Len(auditors), failure \in Ec2Failures :
          ec2_report' = audit_ec2(auditors[i], ec2_fleet, failure)
    /\ UNCHANGED <<auditors, ec2_fleet>>
    /\ UNCHANGED otherThanEc2

\* the caller is done with the report
ReportDropped ==
    /\ ec2_report # NoReport
    /\ ec2_report' = NoReport
    /\ UNCHANGED <<auditors, ec2_fleet>>
    /\ UNCHANGED otherThanEc2

\* ---- utils.calculate_carbon_intensity

\* load_config with no configuration file: default_config, the part
\* calculate_carbon_intensity reads
default_config ==
    [carbon_intensity |-> Millionths(475),
     aws |->
        [default_region |-> "us-east-1",
         carbon_intensity_by_region |->
            ("us-east-1" :> Millionths(415)) @@ ("us-east-2" :> Millionths(523))
            @@ ("us-west-1" :> Millionths(351)) @@ ("us-west-2" :> Millionths(351))
            @@ ("eu-west-1" :> Millionths(316)) @@ ("eu-central-1" :> Millionths(338))
            @@ ("ap-southeast-1" :> Millionths(493))
            @@ ("ap-northeast-1" :> Millionths(506))]]

\* utils.calculate_carbon_intensity
calculate_carbon_intensity(region, config) ==
    LET aws_config == Get(config, "aws", <<>>)
        region_intensities == Get(aws_config, "carbon_intensity_by_region", <<>>)
    IN  Get(region_intensities, region, Get(config, "carbon_intensity", Millionths(475)))

NoLookup == [made |-> FALSE]

LookupInit == ci_lookup = NoLookup

\* calculate_carbon_intensity(region, load_config())
CalculateCarbonIntensity ==
    /\ \E region \in KnownRegions \cup OtherRegions :
          ci_lookup' = [made |-> TRUE, region |-> region,
                        value |-> calculate_carbon_intensity(region, default_config)]
    /\ UNCHANGED otherThanLookup

RegionNext ==
    \/ NewAuditor
    \/ CalculateCarbonIntensity

Ec2Next ==
    \/ RunInstances
    \/ InstanceChanges
    \/ InstanceForgotten
    \/ AuditEc2
    \/ ReportDropped

\* ------------------------------------- LocalAuditor: the emission estimates

DEFAULT_CPU_TDP == 65
DEFAULT_MEMORY_POWER_PER_GB == 3
DEFAULT_DISK_POWER == 10

\* LocalAuditor(config=None): the fields the estimates read
LocalAuditorDefaults ==
    [carbon_intensity |-> Millionths(475),
     cpu_tdp |-> DEFAULT_CPU_TDP,
     memory_power_per_gb |-> DEFAULT_MEMORY_POWER_PER_GB]

\* what _get_system_stats returns. The byte counters are kept in units of 2^20
\* bytes, so that 6 GiB is 6144; memory_used_gb is a whole number of GB.
SystemStats ==
    [cpu_percent : {0, 50}, memory_used_gb : {4},
     disk_io_read_bytes : {0, 512, 6144}, disk_io_write_bytes : {0},
     network_bytes_sent : {0, 100}, network_bytes_recv : {0}]

\* the samples of self.monitoring_data
SampleStats ==
    [cpu_percent : {0, 50}, memory_used_gb : {4},
     disk_io_read_bytes : {0}, disk_io_write_bytes : {0},
     network_bytes_sent : {0}, network_bytes_recv : {0}]

\* the data points handed to _calculate_co2_from_metrics
MetricSamples ==
    [system_cpu_percent : {0, 50}, memory_used_gb : {4},
     disk_read_bytes : {0, 6144}, disk_write_bytes : {0},
     network_bytes_sent : {0, 100}, network_bytes_recv : {0}]

RECURSIVE ListsOf(_, _)
ListsOf(S, n) ==
    IF n = 0 THEN {<<>>}
    ELSE ListsOf(S, n - 1) \cup {Append(l, x) : l \in {k \in ListsOf(S, n - 1) : Len(k) = n - 1}, x \in S}

\* sum(values): the floats are added one by one, from 0
RECURSIVE FloatSum(_, _)
FloatSum(values, total) ==
    IF values = <<>> THEN total
    ELSE FloatSum(Tail(values), FloatAdd(total, Head(values)))

Field(list, name) == [i \in 1..Len(list) |-> FloatFromInt(list[i][name])]

\* total_disk_io_gb * 2 without the cap
DiskPowerUncapped(total_disk_io_gb, cap) == FloatMul(total_disk_io_gb, FloatFromInt(2))

\* min(total_disk_io_gb * 2, self.DEFAULT_DISK_POWER)
DiskPower(total_disk_io_gb, cap) ==
    LET power == FloatMul(total_disk_io_gb, FloatFromInt(2))
    IN  IF FloatCmp(FloatFromInt(cap), power) < 0 THEN FloatFromInt(cap) ELSE power

NoEstimate == [made |-> FALSE]

\* the dictionary both estimates return (the keys the two have in common)
EstimateOf(carbon_intensity, avg_cpu_percent, total_disk_io_gb, cpu_power_watts, memory_power_watts, disk_power_watts, network_power_watts, total_power_watts, total_energy_kwh, total_co2_kg) ==
    [made |-> TRUE,
     total_co2_kg |-> total_co2_kg,
     total_energy_kwh |-> total_energy_kwh,
     avg_cpu_percent |-> avg_cpu_percent,
     disk_io_gb |-> total_disk_io_gb,
     power_breakdown |->
        [cpu_watts |-> cpu_power_watts, memory_watts |-> memory_power_watts,
         disk_watts |-> disk_power_watts, network_watts |-> network_power_watts,
         total_watts |-> total_power_watts],
     carbon_intensity |-> carbon_intensity]

\* total_co2_kg = total_energy_kwh, the carbon intensity left out
WithCo2NoIntensity(carbon_intensity, avg_cpu_percent, total_disk_io_gb, cpu_power_watts, memory_power_watts, disk_power_watts, network_power_watts, total_power_watts, total_energy_kwh) ==
    EstimateOf(carbon_intensity, avg_cpu_percent, total_disk_io_gb, cpu_power_watts,
               memory_power_watts, disk_power_watts, network_power_watts,
               total_power_watts, total_energy_kwh, total_energy_kwh)

\* total_co2_kg = total_energy_kwh * carbon_intensity
WithCo2(carbon_intensity, avg_cpu_percent, total_disk_io_gb, cpu_power_watts, memory_power_watts, disk_power_watts, network_power_watts, total_power_watts, total_energy_kwh) ==
    EstimateOf(carbon_intensity, avg_cpu_percent, total_disk_io_gb, cpu_power_watts,
               memory_power_watts, disk_power_watts, network_power_watts,
               total_power_watts, total_energy_kwh,
               FloatMul(total_energy_kwh, carbon_intensity))

\* duration_hours = duration / 3600
\* total_energy_kwh = (total_power_watts / 1000) * duration_hours
WithEnergy(carbon_intensity, duration, avg_cpu_percent, total_disk_io_gb, cpu_power_watts, memory_power_watts, disk_power_watts, network_power_watts, total_power_watts) ==
    WithCo2(carbon_intensity, avg_cpu_percent, total_disk_io_gb, cpu_power_watts,
            memory_power_watts, disk_power_watts, network_power_watts, total_power_watts,
            FloatMul(FloatDiv(total_power_watts, <<1000>>),
                     FloatDiv(FloatFromInt(duration), <<60, 60>>)))

\* total_power_watts = cpu + memory + disk + network
WithTotalPower(carbon_intensity, duration, avg_cpu_percent, total_disk_io_gb, cpu_power_watts, memory_power_watts, disk_power_watts, network_power_watts) ==
    WithEnergy(carbon_intensity, duration, avg_cpu_percent, total_disk_io_gb, cpu_power_watts,
               memory_power_watts, disk_power_watts, network_power_watts,
               FloatAdd(FloatAdd(FloatAdd(cpu_power_watts, memory_power_watts),
                                 disk_power_watts), network_power_watts))

\* cpu_power_watts = (avg_cpu_percent / 100) * cpu_tdp
\* memory_power_watts = avg_memory_gb * self.memory_power_per_gb
\* disk_power_watts = min(total_disk_io_gb * 2, self.DEFAULT_DISK_POWER)
WithPower(self, carbon_intensity, cpu_tdp, duration, avg_cpu_percent, avg_memory_gb, total_disk_io_gb, network_power_watts) ==
    WithTotalPower(carbon_intensity, duration, avg_cpu_percent, total_disk_io_gb,
                   FloatMul(FloatDiv(avg_cpu_percent, <<100>>), FloatFromInt(cpu_tdp)),
                   FloatMul(avg_memory_gb, FloatFromInt(self.memory_power_per_gb)),
                   DiskPower(total_disk_io_gb, DEFAULT_DISK_POWER),
                   network_power_watts)

\* sum(d[name] for d in data) / len(data) when there are samples, and
\* (initial_stats[name] + final_stats[name]) / 2 when there are none
Average(data, initial_stats, final_stats, name) ==
    IF Len(data) > 0
    THEN FloatDiv(FloatSum(Field(data, name), FloatZero), <<Len(data)>>)
    ELSE FloatDiv(FloatAdd(FloatFromInt(initial_stats[name]),
                           FloatFromInt(final_stats[name])), <<2>>)

\* LocalAuditor._calculate_emissions, data being self.monitoring_data. The
\* differences of the counters are numbers of 2^20 bytes: / (1024**3) divides
\* them by 1024 and / (1024**2) leaves them as they are.
\* DEFAULT_NETWORK_POWER_PER_MB is 0.001.
calculate_emissions(self, data, initial_stats, final_stats, duration, include_network) ==
    WithPower(self, self.carbon_intensity, self.cpu_tdp, duration,
              Average(data, initial_stats, final_stats, "cpu_percent"),
              Average(data, initial_stats, final_stats, "memory_used_gb"),
              FloatDiv(FloatFromInt(
                  (final_stats.disk_io_read_bytes - initial_stats.disk_io_read_bytes)
                  + (final_stats.disk_io_write_bytes - initial_stats.disk_io_write_bytes)),
                  <<1024>>),
              IF include_network
              THEN FloatMul(FloatFromInt(
                       (final_stats.network_bytes_sent - initial_stats.network_bytes_sent)
                       + (final_stats.network_bytes_recv - initial_stats.network_bytes_recv)),
                       Millionths(1000))
              ELSE FloatZero)

Max0(n) == IF n > 0 THEN n ELSE 0

\* max(0, read_diff + write_diff) between the first and the last data point
\* when there is more than one, 0 otherwise; then / (1024**3)
TotalGb(data, read, write) ==
    IF Len(data) > 1
    THEN FloatDiv(FloatFromInt(
             Max0((data[Len(data)][read] - data[1][read])
                  + (data[Len(data)][write] - data[1][write]))), <<1024>>)
    ELSE FloatZero

\* the digits each reported value is rounded to: round(x, 2), round(x, 3),
\* round(x, 6), round(x, 8)
Hundredths == <<100>>
Thousandths == <<1000>>
Digits6 == <<1000, 1000>>
Digits8 == <<100, 1000, 1000>>

\* the return statement of _calculate_co2_from_metrics: every value is rounded
\* on its own
Rounded(e) ==
    EstimateOf(e.carbon_intensity,
               FloatRoundDecimal(e.avg_cpu_percent, Hundredths),
               FloatRoundDecimal(e.disk_io_gb, Thousandths),
               FloatRoundDecimal(e.power_breakdown.cpu_watts, Hundredths),
               FloatRoundDecimal(e.power_breakdown.memory_watts, Hundredths),
               FloatRoundDecimal(e.power_breakdown.disk_watts, Hundredths),
               FloatRoundDecimal(e.power_breakdown.network_watts, Hundredths),
               FloatRoundDecimal(e.power_breakdown.total_watts, Hundredths),
               FloatRoundDecimal(e.total_energy_kwh, Digits6),
               FloatRoundDecimal(e.total_co2_kg, Digits8))

\* LocalAuditor._calculate_co2_from_metrics (the second definition of that name
\* in the class, which is the one the class keeps). No monitoring data gives
\* the dictionary of zeros; otherwise network power is total_network_gb * 0.1.
calculate_co2_from_metrics(self, data, duration, carbon_intensity, cpu_tdp) ==
    IF Len(data) = 0
    THEN EstimateOf(carbon_intensity, FloatZero, FloatZero, FloatZero, FloatZero,
                    FloatZero, FloatZero, FloatZero, FloatZero, FloatZero)
    ELSE Rounded(WithPower(self, carbon_intensity, cpu_tdp, duration,
                           Average(data, data[1], data[1], "system_cpu_percent"),
                           Average(data, data[1], data[1], "memory_used_gb"),
                           TotalGb(data, "disk_read_bytes", "disk_write_bytes"),
                           FloatMul(TotalGb(data, "network_bytes_sent", "network_bytes_recv"),
                                    FloatDiv(FloatFromInt(1), <<10>>))))

EstimateDurations == {1, 60}

\* the calls of _calculate_emissions (as audit_script makes them)
EmissionsCalls ==
    [fn : {"_calculate_emissions"},
     monitoring_data : ListsOf(SampleStats, MaxSamples),
     initial_stats : SystemStats, final_stats : SystemStats,
     duration : EstimateDurations, include_network : BOOLEAN]

\* the calls of _calculate_co2_from_metrics, with the default carbon intensity
\* and with the 0.3 kg/kWh of the tests
MetricsCalls ==
    [fn : {"_calculate_co2_from_metrics"},
     monitoring_data : ListsOf(MetricSamples, MaxSamples),
     duration : EstimateDurations \cup {3600},
     carbon_intensity : {Millionths(475), FloatDiv(FloatFromInt(3), <<10>>)},
     cpu_tdp : {DEFAULT_CPU_TDP}]

NoCall == [fn |-> "none"]

EstimateInit(start) ==
    /\ est_call \in start
    /\ est_result = NoEstimate

CalculateEmissionsCall ==
    /\ est_call.fn = "_calculate_emissions"
    /\ est_result = NoEstimate
    /\ est_result' = calculate_emissions(LocalAuditorDefaults, est_call.monitoring_data,
                                         est_call.initial_stats, est_call.final_stats,
                                         est_call.duration, est_call.include_network)
    /\ UNCHANGED est_call
    /\ UNCHANGED otherThanEstimate

CalculateFromMetricsCall ==
    /\ est_call.fn = "_calculate_co2_from_metrics"
    /\ est_result = NoEstimate
    /\ est_result' = calculate_co2_from_metrics(LocalAuditorDefaults, est_call.monitoring_data,
                                                est_call.duration, est_call.carbon_intensity,
                                                est_call.cpu_tdp)
    /\ UNCHANGED est_call
    /\ UNCHANGED otherThanEstimate

EstimateNext ==
    \/ CalculateEmissionsCall
    \/ CalculateFromMetricsCall

\* ------------------------------------ LocalAuditor.audit_multiple_scripts

ScriptPaths == {"a.py", "b.py"}

\* what _get_system_stats reads on a quiet machine
QuietStats ==
    [cpu_percent |-> 0, memory_used_gb |-> 4,
     disk_io_read_bytes |-> 0, disk_io_write_bytes |-> 0,
     network_bytes_sent |-> 0, network_bytes_recv |-> 0]

\* what one audit_script call measures: its samples, its two snapshots and the
\* time the script ran
ScriptRuns ==
    {[data |-> <<>>, initial_stats |-> QuietStats, final_stats |-> QuietStats,
      duration |-> 1],
     [data |-> <<[QuietStats EXCEPT !.cpu_percent = 50]>>,
      initial_stats |-> QuietStats, final_stats |-> QuietStats, duration |-> 60]}

\* what one audit_script call does: it raises, or it returns the estimate of
\* what it measured
ScriptOutcomes ==
    {[raised |-> TRUE, error |-> e] : e \in {"FileNotFoundError"}}
        \cup {[raised |-> FALSE, run |-> r] : r \in ScriptRuns}

\* the dictionary audit_script returns
ScriptResult(self, script_path, run) ==
    [script_path |-> script_path, monitoring_samples |-> Len(run.data)]
        @@ calculate_emissions(self, run.data, run.initial_stats, run.final_stats,
                               run.duration, FALSE)

\* the entry of a script whose audit raised
ErrorEntry(e) == [error |-> e, total_co2_kg |-> FloatZero]

\* 'error' not in r
HasError(r) == "error" \in DOMAIN r

NoScripts == [k \in {} |-> ErrorEntry("")]

MultipleInit(lists) ==
    /\ ms_paths \in lists
    /\ ms_pc = "idle"
    /\ ms_i = 0
    /\ ms_results = NoScripts
    /\ ms_total = FloatZero
    /\ ms_audits = <<>>

\* results = {}; total_co2 = 0
MultipleBegin ==
    /\ ms_pc = "idle"
    /\ ms_pc' = "loop"
    /\ ms_i' = 1
    /\ ms_results' = NoScripts
    /\ ms_total' = FloatZero
    /\ UNCHANGED <<ms_paths, ms_audits>>
    /\ UNCHANGED otherThanMultiple

\* a loop that an exception ends
NextPathStops(script_paths, i, raised) == IF raised THEN Len(script_paths) + 1 ELSE i + 1

\* for script_path in script_paths: the position after a pass, raised or not
NextPath(script_paths, i, raised) == i + 1

\* one pass of the loop: the try block, or its except branch
MultiplePass ==
    /\ ms_pc = "loop"
    /\ ms_i <= Len(ms_paths)
    /\ \E outcome \in ScriptOutcomes :
          LET script_path == ms_paths[ms_i]
          IN  IF outcome.raised
              THEN /\ ms_results' = Put(ms_results, script_path, ErrorEntry(outcome.error))
                   /\ ms_total' = ms_total
                   /\ ms_audits' = Append(ms_audits,
                          [script_path |-> script_path, raised |-> TRUE,
                           total_co2_kg |-> FloatZero])
              ELSE LET script_result ==
                           ScriptResult(LocalAuditorDefaults, script_path, outcome.run)
                   IN  /\ ms_results' = Put(ms_results, script_path, script_result)
                       /\ ms_total' = FloatAdd(ms_total, script_result.total_co2_kg)
                       /\ ms_audits' = Append(ms_audits,
                              [script_path |-> script_path, raised |-> FALSE,
                               total_co2_kg |-> script_result.total_co2_kg])
    /\ ms_i' = NextPath(ms_paths, ms_i, ms_audits'[Len(ms_audits')].raised)
    /\ UNCHANGED <<ms_paths, ms_pc>>
    /\ UNCHANGED otherThanMultiple

\* sum(1 for r in results.values() if isinstance(r, dict) and 'error' not in r)
SuccessfulAudits(results) == Cardinality({k \in DOMAIN results : ~HasError(results[k])})

\* results['summary'] = {...}; return results
MultipleSummary ==
    /\ ms_pc = "loop"
    /\ ms_i > Len(ms_paths)
    /\ ms_results' = Put(ms_results, "summary",
          [total_scripts |-> Len(ms_paths),
           successful_audits |-> SuccessfulAudits(ms_results),
           total_co2_kg |-> ms_total,
           average_co2_per_script |->
               IF Len(ms_paths) > 0 THEN FloatDiv(ms_total, <<Len(ms_paths)>>)
               ELSE FloatZero])
    /\ ms_pc' = "done"
    /\ UNCHANGED <<ms_paths, ms_i, ms_total, ms_audits>>
    /\ UNCHANGED otherThanMultiple

MultipleNext ==
    \/ MultipleBegin
    \/ MultiplePass
    \/ MultipleSummary

\* ------------------------------------------------------------ ReceiptParser

\* a str is the sequence of its characters

\* the float literal n / 1000
Milli(n) == FloatDiv(FloatFromInt(n), <<1000>>)

EMISSION_FACTORS ==
    (<<"m", "e", "a", "t", "_", "b", "e", "e", "f">> :> Milli(27000))
    @@ (<<"m", "e", "a", "t", "_", "p", "o", "r", "k">> :> Milli(12100))
    @@ (<<"m", "e", "a", "t", "_", "c", "h", "i", "c", "k", "e", "n">> :> Milli(6900))
    @@ (<<"m", "e", "a", "t", "_", "f", "i", "s", "h">> :> Milli(6100))
    @@ (<<"d", "a", "i", "r", "y", "_", "m", "i", "l", "k">> :> Milli(3200))
    @@ (<<"d", "a", "i", "r", "y", "_", "c", "h", "e", "e", "s", "e">> :> Milli(13500))
    @@ (<<"d", "a", "i", "r", "y", "_", "y", "o", "g", "u", "r", "t">> :> Milli(2200))
    @@ (<<"v", "e", "g", "e", "t", "a", "b", "l", "e", "s">> :> Milli(2000))
    @@ (<<"f", "r", "u", "i", "t", "s">> :> Milli(1100))
    @@ (<<"g", "r", "a", "i", "n", "s">> :> Milli(2700))
    @@ (<<"b", "r", "e", "a", "d">> :> Milli(900))
    @@ (<<"e", "g", "g", "s">> :> Milli(4200))
    @@ (<<"f", "u", "e", "l", "_", "g", "a", "s", "o", "l", "i", "n", "e">> :> Milli(2310))
    @@ (<<"f", "u", "e", "l", "_", "d", "i", "e", "s", "e", "l">> :> Milli(2680))
    @@ (<<"p", "u", "b", "l", "i", "c", "_", "t", "r", "a", "n", "s", "p", "o", "r", "t">> :> Milli(89))
    @@ (<<"t", "a", "x", "i", "_", "r", "i", "d", "e">> :> Milli(210))
    @@ (<<"e", "l", "e", "c", "t", "r", "i", "c", "i", "t", "y">> :> Milli(475))
    @@ (<<"n", "a", "t", "u", "r", "a", "l", "_", "g", "a", "s">> :> Milli(202))
    @@ (<<"c", "l", "o", "t", "h", "i", "n", "g">> :> Milli(33400))
    @@ (<<"e", "l", "e", "c", "t", "r", "o", "n", "i", "c", "s">> :> Milli(300000))
    @@ (<<"b", "o", "o", "k", "s">> :> Milli(1800))
    @@ (<<"h", "o", "u", "s", "e", "h", "o", "l", "d", "_", "i", "t", "e", "m", "s">> :> Milli(5000))
    @@ (<<"c", "o", "s", "m", "e", "t", "i", "c", "s">> :> Milli(3000))
    @@ (<<"c", "l", "e", "a", "n", "i", "n", "g", "_", "p", "r", "o", "d", "u", "c", "t", "s">> :> Milli(2500))

\* the dictionary in the order it is written in, which is the order
\* _categorize_item goes through it
CATEGORY_KEYWORDS ==
    << [category |-> <<"m", "e", "a", "t", "_", "b", "e", "e", "f">>,
        keywords |-> <<<<"b", "e", "e", "f">>, <<"s", "t", "e", "a", "k">>, <<"g", "r", "o", "u", "n", "d", " ", "b", "e", "e", "f">>, <<"h", "a", "m", "b", "u", "r", "g", "e", "r">>, <<"r", "o", "a", "s", "t", " ", "b", "e", "e", "f">>>>],
       [category |-> <<"m", "e", "a", "t", "_", "p", "o", "r", "k">>,
        keywords |-> <<<<"p", "o", "r", "k">>, <<"b", "a", "c", "o", "n">>, <<"h", "a", "m">>, <<"s", "a", "u", "s", "a", "g", "e">>, <<"p", "o", "r", "k", " ", "c", "h", "o", "p">>>>],
       [category |-> <<"m", "e", "a", "t", "_", "c", "h", "i", "c", "k", "e", "n">>,
        keywords |-> <<<<"c", "h", "i", "c", "k", "e", "n">>, <<"p", "o", "u", "l", "t", "r", "y">>, <<"t", "u", "r", "k", "e", "y">>, <<"c", "h", "i", "c", "k", "e", "n", " ", "b", "r", "e", "a", "s", "t">>>>],
       [category |-> <<"m", "e", "a", "t", "_", "f", "i", "s", "h">>,
        keywords |-> <<<<"f", "i", "s", "h">>, <<"s", "a", "l", "m", "o", "n">>, <<"t", "u", "n", "a">>, <<"c", "o", "d">>, <<"s", "h", "r", "i", "m", "p">>, <<"s", "e", "a", "f", "o", "o", "d">>>>],
       [category |-> <<"d", "a", "i", "r", "y", "_", "m", "i", "l", "k">>,
        keywords |-> <<<<"m", "i", "l", "k">>, <<"w", "h", "o", "l", "e", " ", "m", "i", "l", "k">>, <<"s", "k", "i", "m", " ", "m", "i", "l", "k">>, <<"2", "%", " ", "m", "i", "l", "k">>>>],
       [category |-> <<"d", "a", "i", "r", "y", "_", "c", "h", "e", "e", "s", "e">>,
        keywords |-> <<<<"c", "h", "e", "e", "s", "e">>, <<"c", "h", "e", "d", "d", "a", "r">>, <<"m", "o", "z", "z", "a", "r", "e", "l", "l", "a">>, <<"s", "w", "i", "s", "s">>, <<"p", "a", "r", "m", "e", "s", "a", "n">>>>],
       [category |-> <<"d", "a", "i", "r", "y", "_", "y", "o", "g", "u", "r", "t">>,
        keywords |-> <<<<"y", "o", "g", "u", "r", "t">>, <<"y", "o", "g", "h", "u", "r", "t">>, <<"g", "r", "e", "e", "k", " ", "y", "o", "g", "u", "r", "t">>>>],
       [category |-> <<"v", "e", "g", "e", "t", "a", "b", "l", "e", "s">>,
        keywords |-> <<<<"v", "e", "g", "e", "t", "a", "b", "l", "e", "s">>, <<"l", "e", "t", "t", "u", "c", "e">>, <<"t", "o", "m", "a", "t", "o">>, <<"c", "a", "r", "r", "o", "t">>, <<"b", "r", "o", "c", "c", "o", "l", "i">>, <<"s", "p", "i", "n", "a", "c", "h">>, <<"o", "n", "i", "o", "n">>>>],
       [category |-> <<"f", "r", "u", "i", "t", "s">>,
        keywords |-> <<<<"a", "p", "p", "l", "e">>, <<"b", "a", "n", "a", "n", "a">>, <<"o", "r", "a", "n", "g", "e">>, <<"g", "r", "a", "p", "e">>, <<"s", "t", "r", "a", "w", "b", "e", "r", "r", "y">>, <<"f", "r", "u", "i", "t">>>>],
       [category |-> <<"g", "r", "a", "i", "n", "s">>,
        keywords |-> <<<<"r", "i", "c", "e">>, <<"p", "a", "s", "t", "a">>, <<"c", "e", "r", "e", "a", "l">>, <<"o", "a", "t", "s">>, <<"q", "u", "i", "n", "o", "a">>>>],
       [category |-> <<"b", "r", "e", "a", "d">>,
        keywords |-> <<<<"b", "r", "e", "a", "d">>, <<"l", "o", "a", "f">>, <<"b", "a", "g", "e", "l">>, <<"r", "o", "l", "l">>, <<"b", "a", "g", "u", "e", "t", "t", "e">>>>],
       [category |-> <<"e", "g", "g", "s">>,
        keywords |-> <<<<"e", "g", "g", "s">>, <<"e", "g", "g">>>>],
       [category |-> <<"f", "u", "e", "l", "_", "g", "a", "s", "o", "l", "i", "n", "e">>,
        keywords |-> <<<<"g", "a", "s", "o", "l", "i", "n", "e">>, <<"g", "a", "s">>, <<"u", "n", "l", "e", "a", "d", "e", "d">>, <<"p", "r", "e", "m", "i", "u", "m">>>>],
       [category |-> <<"f", "u", "e", "l", "_", "d", "i", "e", "s", "e", "l">>,
        keywords |-> <<<<"d", "i", "e", "s", "e", "l">>>>],
       [category |-> <<"e", "l", "e", "c", "t", "r", "i", "c", "i", "t", "y">>,
        keywords |-> <<<<"e", "l", "e", "c", "t", "r", "i", "c">>, <<"e", "l", "e", "c", "t", "r", "i", "c", "i", "t", "y">>, <<"p", "o", "w", "e", "r">>>>],
       [category |-> <<"c", "l", "o", "t", "h", "i", "n", "g">>,
        keywords |-> <<<<"s", "h", "i", "r", "t">>, <<"p", "a", "n", "t", "s">>, <<"d", "r", "e", "s", "s">>, <<"j", "a", "c", "k", "e", "t">>, <<"s", "h", "o", "e", "s">>, <<"c", "l", "o", "t", "h", "i", "n", "g">>>>],
       [category |-> <<"e", "l", "e", "c", "t", "r", "o", "n", "i", "c", "s">>,
        keywords |-> <<<<"p", "h", "o", "n", "e">>, <<"l", "a", "p", "t", "o", "p">>, <<"t", "a", "b", "l", "e", "t">>, <<"h", "e", "a", "d", "p", "h", "o", "n", "e", "s">>, <<"c", "h", "a", "r", "g", "e", "r">>>>],
       [category |-> <<"b", "o", "o", "k", "s">>,
        keywords |-> <<<<"b", "o", "o", "k">>, <<"m", "a", "g", "a", "z", "i", "n", "e">>, <<"n", "e", "w", "s", "p", "a", "p", "e", "r">>>>],
       [category |-> <<"h", "o", "u", "s", "e", "h", "o", "l", "d", "_", "i", "t", "e", "m", "s">>,
        keywords |-> <<<<"d", "e", "t", "e", "r", "g", "e", "n", "t">>, <<"s", "o", "a", "p">>, <<"s", "h", "a", "m", "p", "o", "o">>, <<"t", "o", "o", "t", "h", "p", "a", "s", "t", "e">>>>],
       [category |-> <<"c", "o", "s", "m", "e", "t", "i", "c", "s">>,
        keywords |-> <<<<"m", "a", "k", "e", "u", "p">>, <<"l", "i", "p", "s", "t", "i", "c", "k">>, <<"f", "o", "u", "n", "d", "a", "t", "i", "o", "n">>, <<"p", "e", "r", "f", "u", "m", "e">>>>] >>

\* price_per_unit of _estimate_amount
price_per_unit ==
    (<<"f", "o", "o", "d", "_", "b", "e", "e", "f">> :> Milli(15000))
    @@ (<<"f", "o", "o", "d", "_", "p", "o", "r", "k">> :> Milli(10000))
    @@ (<<"f", "o", "o", "d", "_", "c", "h", "i", "c", "k", "e", "n">> :> Milli(8000))
    @@ (<<"f", "o", "o", "d", "_", "f", "i", "s", "h">> :> Milli(20000))
    @@ (<<"d", "a", "i", "r", "y", "_", "m", "i", "l", "k">> :> Milli(1500))
    @@ (<<"d", "a", "i", "r", "y", "_", "c", "h", "e", "e", "s", "e">> :> Milli(12000))
    @@ (<<"d", "a", "i", "r", "y", "_", "y", "o", "g", "u", "r", "t">> :> Milli(4000))
    @@ (<<"v", "e", "g", "e", "t", "a", "b", "l", "e", "s">> :> Milli(3000))
    @@ (<<"f", "r", "u", "i", "t", "s">> :> Milli(4000))
    @@ (<<"g", "r", "a", "i", "n", "s">> :> Milli(2000))
    @@ (<<"b", "r", "e", "a", "d">> :> Milli(3000))
    @@ (<<"e", "g", "g", "s">> :> Milli(3000))
    @@ (<<"f", "u", "e", "l", "_", "g", "a", "s", "o", "l", "i", "n", "e">> :> Milli(1500))
    @@ (<<"f", "u", "e", "l", "_", "d", "i", "e", "s", "e", "l">> :> Milli(1600))
    @@ (<<"c", "l", "o", "t", "h", "i", "n", "g">> :> Milli(50000))
    @@ (<<"e", "l", "e", "c", "t", "r", "o", "n", "i", "c", "s">> :> Milli(500000))

\* the groups of _category_matches_filter
category_groups ==
    [food |-> {<<"m", "e", "a", "t">>, <<"d", "a", "i", "r", "y">>,
               <<"v", "e", "g", "e", "t", "a", "b", "l", "e", "s">>,
               <<"f", "r", "u", "i", "t", "s">>, <<"g", "r", "a", "i", "n", "s">>,
               <<"b", "r", "e", "a", "d">>, <<"e", "g", "g", "s">>},
     transport |-> {<<"f", "u", "e", "l">>},
     energy |-> {<<"e", "l", "e", "c", "t", "r", "i", "c", "i", "t", "y">>,
                 <<"n", "a", "t", "u", "r", "a", "l", "_", "g", "a", "s">>},
     goods |-> {<<"c", "l", "o", "t", "h", "i", "n", "g">>,
                <<"e", "l", "e", "c", "t", "r", "o", "n", "i", "c", "s">>,
                <<"b", "o", "o", "k", "s">>,
                <<"h", "o", "u", "s", "e", "h", "o", "l", "d">>,
                <<"c", "o", "s", "m", "e", "t", "i", "c", "s">>}]

\* the choices of --category (cli.py)
CategoryFilters == {"transport", "energy", "food", "goods", "all"}

\* str.lower(), on the letters the item names are written with
UpperCase ==
    ("A" :> "a") @@ ("B" :> "b") @@ ("C" :> "c") @@ ("D" :> "d") @@ ("E" :> "e")
    @@ ("F" :> "f") @@ ("G" :> "g") @@ ("H" :> "h") @@ ("I" :> "i") @@ ("J" :> "j")
    @@ ("K" :> "k") @@ ("L" :> "l") @@ ("M" :> "m") @@ ("N" :> "n") @@ ("O" :> "o")
    @@ ("P" :> "p") @@ ("Q" :> "q") @@ ("R" :> "r") @@ ("S" :> "s") @@ ("T" :> "t")
    @@ ("U" :> "u") @@ ("V" :> "v") @@ ("W" :> "w") @@ ("X" :> "x") @@ ("Y" :> "y")
    @@ ("Z" :> "z")

Lower(str) ==
    [i \in 1..Len(str) |-> IF str[i] \in DOMAIN UpperCase THEN UpperCase[str[i]] ELSE str[i]]

\* keyword in str
Contains(keyword, str) ==
    \E i \in 1..(Len(str) - Len(keyword) + 1) :
        \A j \in 1..Len(keyword) : str[i + j - 1] = keyword[j]

\* str.split('_')[0]
SplitFirst(str) ==
    LET at == {i \in 1..Len(str) : str[i] = "_"}
    IN  IF at = {} THEN str
        ELSE SubSeq(str, 1, (CHOOSE i \in at : \A j \in at : i <= j) - 1)

\* Python's None, which "if category:" takes for false as it does the empty str
None == <<>>

\* the first category, in the order of the dictionary, one of whose keywords
\* the lowered name contains
FirstMatch(item_name_lower) ==
    LET hits == {c \in 1..Len(CATEGORY_KEYWORDS) :
                    \E k \in 1..Len(CATEGORY_KEYWORDS[c].keywords) :
                        Contains(CATEGORY_KEYWORDS[c].keywords[k], item_name_lower)}
    IN  IF hits = {} THEN None
        ELSE CATEGORY_KEYWORDS[CHOOSE c \in hits : \A d \in hits : c <= d].category

\* ReceiptParser._categorize_item
categorize_item(item_name) == FirstMatch(Lower(item_name))

\* ReceiptParser._category_matches_filter
category_matches_filter(category, filter_type) ==
    \/ filter_type = "all"
    \/ /\ filter_type \in DOMAIN category_groups
       /\ SplitFirst(category) \in category_groups[filter_type]

\* the unit price of _estimate_amount: the table's, 10.0 for a category it
\* does not list, and the three names that are matched directly
UnitPrice(item_lower, category) ==
    IF item_lower = <<"b", "e", "e", "f">> THEN Milli(15000)
    ELSE IF item_lower = <<"c", "h", "i", "c", "k", "e", "n">> THEN Milli(8000)
    ELSE IF item_lower = <<"m", "i", "l", "k">> THEN Milli(1500)
    ELSE Get(price_per_unit, category, Milli(10000))

\* ReceiptParser._estimate_amount
estimate_amount(item, price, quantity) ==
    FloatMul(FloatDivide(price, UnitPrice(Lower(item), categorize_item(item))), quantity)

\* item_carbon
ItemCarbon(item, category, emission_factor, estimated_amount) ==
    [name |-> item.name, category |-> category, quantity |-> item.quantity,
     price |-> item.price, estimated_amount |-> estimated_amount,
     emission_factor |-> emission_factor,
     co2_emissions_kg |-> FloatMul(estimated_amount, emission_factor)]

\* defaultdict(float): breakdown[group] += co2
AddTo(breakdown, group, co2) ==
    IF group \in DOMAIN breakdown
    THEN [breakdown EXCEPT ![group] = FloatAdd(@, co2)]
    ELSE breakdown @@ (group :> FloatAdd(FloatZero, co2))

\* the matched item left out: it is in neither list and adds nothing
WithItemDropped(carbon_data, item_carbon) == carbon_data

\* the matched item is appended, with its emissions added to the total and to
\* its group
WithItem(carbon_data, item_carbon) ==
    [carbon_data EXCEPT
        !.items_with_emissions = Append(@, item_carbon),
        !.total_co2_kg = FloatAdd(@, item_carbon.co2_emissions_kg),
        !.category_breakdown =
            AddTo(@, SplitFirst(item_carbon.category), item_carbon.co2_emissions_kg)]

\* the body of the loop, with the category and the emission factor found
LoopBody(carbon_data, item, category, emission_factor) ==
    IF category # None /\ FloatCmp(emission_factor, FloatZero) > 0
    THEN WithItem(carbon_data,
                  ItemCarbon(item, category, emission_factor,
                             estimate_amount(item.name, item.price, item.quantity)))
    ELSE [carbon_data EXCEPT !.unmatched_items = Append(@, item.name)]

\* category = self._categorize_item(item_name), and
\* emission_factor = self.EMISSION_FACTORS.get(category, 0)
Categorized(carbon_data, item, category) ==
    LoopBody(carbon_data, item, category, Get(EMISSION_FACTORS, category, FloatZero))

\* for item in receipt_data.get('items', [])
RECURSIVE FootprintLoop(_, _)
FootprintLoop(items, carbon_data) ==
    IF items = <<>> THEN carbon_data
    ELSE FootprintLoop(Tail(items),
                       Categorized(carbon_data, Head(items), categorize_item(Head(items).name)))

\* the confidence of a match rate
Confidence(match_rate) ==
    IF FloatCmp(match_rate, Milli(800)) > 0 THEN "high"
    ELSE IF FloatCmp(match_rate, Milli(500)) > 0 THEN "medium"
    ELSE "low"

WithRate(carbon_data, match_rate) ==
    [carbon_data EXCEPT !.match_rate = match_rate,
                        !.estimation_confidence = Confidence(match_rate)]

\* match_rate and estimation_confidence, which stay 0.0 and 'medium' for a
\* receipt without items
WithMatchRate(carbon_data, total_items) ==
    IF total_items > 0
    THEN WithRate(carbon_data,
                  FloatDivide(FloatFromInt(Len(carbon_data.items_with_emissions)),
                              FloatFromInt(total_items)))
    ELSE carbon_data

EmptyBreakdown == [g \in {} |-> FloatZero]

\* ReceiptParser.calculate_carbon_footprint; category_filter is not read
calculate_carbon_footprint(receipt_data, category_filter) ==
    WithMatchRate(
        FootprintLoop(receipt_data.items,
                      [made |-> TRUE, total_co2_kg |-> FloatZero, items_with_emissions |-> <<>>,
                       category_breakdown |-> EmptyBreakdown, unmatched_items |-> <<>>,
                       estimation_confidence |-> "medium", match_rate |-> FloatZero]),
        Len(receipt_data.items))

\* the names on the receipts
ItemNames ==
    {<<"G", "r", "o", "u", "n", "d", " ", "B", "e", "e", "f">>,
     <<"m", "i", "l", "k">>,
     <<"s", "h", "a", "m", "p", "o", "o">>,
     <<"g", "a", "s", "o", "l", "i", "n", "e">>,
     <<"u", "n", "k", "n", "o", "w", "n", " ", "i", "t", "e", "m">>}

\* items as _parse_items makes them: a name, a price (12.99) and a quantity
Items == [name : ItemNames, price : {Milli(12990)}, quantity : {FloatFromInt(1), FloatFromInt(2)}]

Receipts == [items : ListsOf(Items, MaxItems)]

NoFootprint == [made |-> FALSE]

ReceiptInit(receipts, filters) ==
    /\ rc_receipt \in receipts
    /\ rc_filter \in filters
    /\ rc_result = NoFootprint

CalculateCarbonFootprint ==
    /\ rc_result = NoFootprint
    /\ rc_result' = calculate_carbon_footprint(rc_receipt, rc_filter)
    /\ UNCHANGED <<rc_receipt, rc_filter>>
    /\ UNCHANGED otherThanReceipt

ReceiptNext == CalculateCarbonFootprint

\* ------------------------------------------------------- validate_file_path

\* Path(file_path).expanduser().resolve(): a relative path is taken from the
\* working directory, ~ is the home directory, an absolute path is itself
Resolve ==
    ("a.py" :> "/cwd/a.py") @@ ("~/a.py" :> "/home/a.py")
    @@ ("/cwd/a.py" :> "/cwd/a.py") @@ ("/cwd/b.py" :> "/cwd/b.py")

\* a str with a null character in it, which resolve() raises ValueError for
InvalidPaths == {"a\\0.py"}

FilePaths == DOMAIN Resolve \cup InvalidPaths

ResolvedPaths == {Resolve[f] : f \in DOMAIN Resolve}

Returned(path) == [raised |-> "none", path |-> path, cause |-> "none"]

Raised(exception, cause) == [raised |-> exception, path |-> "none", cause |-> cause]

\* the body of the try
TryValidate(files, file_path, must_exist) ==
    IF file_path \in InvalidPaths THEN Raised("ValueError", "none")
    ELSE IF must_exist /\ Resolve[file_path] \notin files
         THEN Raised("FileNotFoundError", "none")
         ELSE Returned(Resolve[file_path])

\* except Exception as e: raise ValueError(...)
ExceptException(outcome) ==
    IF outcome.raised # "none" THEN Raised("ValueError", outcome.raised) ELSE outcome

validate_file_path(files, file_path, must_exist) ==
    ExceptException(TryValidate(files, file_path, must_exist))

NotCalled == [raised |-> "none", path |-> "none", cause |-> "none"]

ValidateInit(files, paths) ==
    /\ vf_files \in files
    /\ vf_call \in [file_path : paths, must_exist : BOOLEAN]
    /\ vf_result = NotCalled

ValidateFilePath ==
    /\ vf_result = NotCalled
    /\ vf_result' = validate_file_path(vf_files, vf_call.file_path, vf_call.must_exist)
    /\ UNCHANGED <<vf_files, vf_call>>
    /\ UNCHANGED otherThanValidate

ValidateNext == ValidateFilePath

\* ---------------------------------------------------- CO2ReductionPlanner

PlannerAction(action, category, percent, effort, weeks) ==
    [action |-> action, category |-> category, co2_reduction_percent |-> percent,
     effort_level |-> effort, timeline_weeks |-> weeks]

aws_actions ==
    <<PlannerAction("Use Graviton instances", "infrastructure", 20, "medium", 4),
      PlannerAction("Implement auto-scaling", "optimization", 25, "high", 6),
      PlannerAction("Right-size instances", "optimization", 15, "low", 2),
      PlannerAction("Use Spot instances", "cost_optimization", 10, "medium", 3),
      PlannerAction("Optimize S3 storage classes", "storage", 12, "low", 1),
      PlannerAction("Schedule non-critical workloads", "scheduling", 8, "medium", 2)>>

personal_actions ==
    <<PlannerAction("Eat plant-based", "diet", 40, "medium", 8),
      PlannerAction("Reduce meat consumption", "diet", 25, "low", 4),
      PlannerAction("Buy local and seasonal", "consumption", 15, "low", 2),
      PlannerAction("Optimize transportation", "transport", 35, "low", 2),
      PlannerAction("Reduce energy consumption", "energy", 20, "low", 1)>>

dev_actions ==
    <<PlannerAction("Optimize algorithms", "code", 30, "high", 6),
      PlannerAction("Implement caching", "performance", 20, "medium", 3),
      PlannerAction("Optimize database queries", "database", 15, "medium", 2)>>

\* the JSON files of the data directory, named here by what load_audit_data
\* makes of their content: an AWS audit, a script audit, a receipt analysis,
\* and a file that is none of these
AuditFiles == {"aws.json", "local.json", "personal.json", "other.json"}

\* load_audit_data: the audits of each kind, and every file that was loaded
load_audit_data(files) ==
    [aws |-> files \cap {"aws.json"},
     local |-> files \cap {"local.json"},
     personal |-> files \cap {"personal.json"},
     data_sources |-> files]

\* the actions generate_reduction_plan selects from
AvailableActions(focus_areas, audit_data) ==
    IF audit_data.data_sources = {}
    THEN aws_actions \o personal_actions \o dev_actions
    ELSE (IF "aws" \in focus_areas /\ audit_data.aws # {} THEN aws_actions ELSE <<>>)
         \o (IF "personal" \in focus_areas /\ audit_data.personal # {}
             THEN personal_actions ELSE <<>>)
         \o (IF "dev" \in focus_areas /\ audit_data.local # {} THEN dev_actions ELSE <<>>)

PlannerEffort(action) ==
    CASE action.effort_level = "low" -> 1
      [] action.effort_level = "medium" -> 2
      [] action.effort_level = "high" -> 3

\* (co2_reduction_percent / effort_score) * timeline_fit
ImpactEffortRatio(action, timeframe_months) ==
    FloatMul(FloatDiv(FloatFromInt(action.co2_reduction_percent), <<PlannerEffort(action)>>),
             IF action.timeline_weeks <= timeframe_months * 4
             THEN FloatFromInt(1) ELSE FloatDiv(FloatFromInt(1), <<2>>))

ScoredPlannerActions(available, timeframe_months) ==
    [i \in 1..Len(available) |->
        [score |-> ImpactEffortRatio(available[i], timeframe_months),
         action |-> available[i]]]

\* x put among r, the sorted elements that followed it in the list: after every
\* greater score and before every equal one
PlaceByScore(x, r) ==
    InsertAt(r, Cardinality({i \in 1..Len(r) : FloatCmp(r[i].score, x.score) > 0}) + 1, x)

\* scored_actions.sort(key=lambda x: x[0], reverse=True)
RECURSIVE SortByScore(_)
SortByScore(scored) ==
    IF scored = <<>> THEN <<>> ELSE PlaceByScore(Head(scored), SortByScore(Tail(scored)))

\* cumulative_reduction += co2_reduction_percent * (1 - cumulative_reduction / 100)
WithDiminishingReturns(cumulative, action) ==
    FloatAdd(cumulative,
             FloatMul(FloatFromInt(action.co2_reduction_percent),
                      FloatAdd(FloatFromInt(1), FloatNeg(FloatDiv(cumulative, <<100>>)))))

\* the loop of _select_optimal_actions, and the test that ends a pass of it:
\* cumulative_reduction >= target_reduction * 1.2
RECURSIVE SelectOptimalLoop(_, _, _, _)
RECURSIVE SelectOptimalNext(_, _, _, _)
SelectOptimalNext(rest, target, cumulative, selected) ==
    IF FloatCmp(cumulative, FloatMul(target, FloatDiv(FloatFromInt(12), <<10>>))) >= 0
    THEN selected
    ELSE SelectOptimalLoop(rest, target, cumulative, selected)

SelectOptimalLoop(scored, target, cumulative, selected) ==
    IF scored = <<>> THEN selected
    ELSE IF FloatCmp(cumulative, target) < 0
         THEN SelectOptimalNext(Tail(scored), target,
                                WithDiminishingReturns(cumulative, Head(scored).action),
                                Append(selected, Head(scored).action))
         ELSE SelectOptimalNext(Tail(scored), target, cumulative, selected)

\* _select_optimal_actions
select_optimal_actions(available_actions, target_reduction, timeframe_months) ==
    SelectOptimalLoop(SortByScore(ScoredPlannerActions(available_actions, timeframe_months)),
                      target_reduction, FloatZero, <<>>)

\* generate_reduction_plan, the part of the plan that names the actions
generate_reduction_plan(files, target_reduction, timeframe_months, focus_areas) ==
    [made |-> TRUE,
     target_reduction_percent |-> target_reduction,
     timeframe_months |-> timeframe_months,
     focus_areas |-> focus_areas,
     data_sources |-> load_audit_data(files).data_sources,
     selected_actions |->
        select_optimal_actions(AvailableActions(focus_areas, load_audit_data(files)),
                               target_reduction, timeframe_months)]

PlannerAreas == {"aws", "personal", "dev"}

\* the calls: focus_areas is a list the code only asks membership of
PlannerCalls ==
    [target_reduction : {FloatZero, FloatFromInt(30), FloatFromInt(100)},
     timeframe_months : {1, 6},
     focus_areas : SUBSET PlannerAreas]

NoReductionPlan == [made |-> FALSE]

PlannerInit(directories, start) ==
    /\ crp_files \in directories
    /\ crp_call \in start
    /\ crp_plan = NoReductionPlan

GenerateReductionPlan ==
    /\ crp_plan = NoReductionPlan
    /\ crp_plan' = generate_reduction_plan(crp_files, crp_call.target_reduction,
                                           crp_call.timeframe_months, crp_call.focus_areas)
    /\ UNCHANGED <<crp_files, crp_call>>
    /\ UNCHANGED otherThanPlanner

PlannerNext == GenerateReductionPlan

\* ---------------------------------------------------------- specifications

Init ==
    /\ AuditInit
    /\ MonitorInit
    /\ PlanInit({Baseline(0, 0, 0)})
    /\ AwsInit
    /\ Ec2Init({})
    /\ EstimateInit({NoCall})
    /\ ReceiptInit({[items |-> <<>>]}, {"all"})
    /\ ValidateInit({{}}, {"a.py"})
    /\ MultipleInit({<<>>})
    /\ PlannerInit({{}}, {[target_reduction |-> FloatZero, timeframe_months |-> 1, focus_areas |-> {}]})
    /\ LookupInit

SpecAudit == Init /\ [][AuditNext]_vars

\* The scheduler runs every runnable thread eventually and time passes; only the
\* child's own exit and the arrival of new calls are not guaranteed. (At most one
\* sampling thread is runnable at a time, so one condition covers them all.)
SpecAuditLive ==
    /\ Init
    /\ [][AuditNext]_vars
    /\ WF_vars(ParentStep)
    /\ WF_vars(\E k \in ThreadIds : ThreadStep(k))
    /\ WF_vars(Tick)

SpecMonitor == Init /\ [][MonitorNext]_vars

\* plans are generated over every baseline the audit files can add up to
InitPlan ==
    /\ AuditInit
    /\ MonitorInit
    /\ PlanInit(Baselines)
    /\ AwsInit
    /\ Ec2Init({})
    /\ EstimateInit({NoCall})
    /\ ReceiptInit({[items |-> <<>>]}, {"all"})
    /\ ValidateInit({{}}, {"a.py"})
    /\ MultipleInit({<<>>})
    /\ PlannerInit({{}}, {[target_reduction |-> FloatZero, timeframe_months |-> 1, focus_areas |-> {}]})
    /\ LookupInit

SpecPlan == InitPlan /\ [][PlanNext]_vars

SpecAws == Init /\ [][AwsNext]_vars

SpecRegion == Init /\ [][RegionNext]_vars

\* audits by an auditor of us-east-1
InitEc2 ==
    /\ AuditInit
    /\ MonitorInit
    /\ PlanInit({Baseline(0, 0, 0)})
    /\ AwsInit
    /\ Ec2Init({"us-east-1"})
    /\ EstimateInit({NoCall})
    /\ ReceiptInit({[items |-> <<>>]}, {"all"})
    /\ ValidateInit({{}}, {"a.py"})
    /\ MultipleInit({<<>>})
    /\ PlannerInit({{}}, {[target_reduction |-> FloatZero, timeframe_months |-> 1, focus_areas |-> {}]})
    /\ LookupInit
    /\ auditors # <<>>

SpecEc2 == InitEc2 /\ [][Ec2Next]_vars

\* each estimate, over the arguments it can be called with
InitEstimate ==
    /\ AuditInit
    /\ MonitorInit
    /\ PlanInit({Baseline(0, 0, 0)})
    /\ AwsInit
    /\ Ec2Init({})
    /\ EstimateInit(EmissionsCalls \cup MetricsCalls)
    /\ ReceiptInit({[items |-> <<>>]}, {"all"})
    /\ ValidateInit({{}}, {"a.py"})
    /\ MultipleInit({<<>>})
    /\ PlannerInit({{}}, {[target_reduction |-> FloatZero, timeframe_months |-> 1, focus_areas |-> {}]})
    /\ LookupInit

SpecEstimate == InitEstimate /\ [][EstimateNext]_vars

\* calculate_carbon_footprint, over the receipts and the filters
InitReceipt ==
    /\ AuditInit
    /\ MonitorInit
    /\ PlanInit({Baseline(0, 0, 0)})
    /\ AwsInit
    /\ Ec2Init({})
    /\ EstimateInit({NoCall})
    /\ ReceiptInit(Receipts, CategoryFilters)
    /\ ValidateInit({{}}, {"a.py"})
    /\ MultipleInit({<<>>})
    /\ PlannerInit({{}}, {[target_reduction |-> FloatZero, timeframe_months |-> 1, focus_areas |-> {}]})
    /\ LookupInit

SpecReceipt == InitReceipt /\ [][ReceiptNext]_vars

\* validate_file_path, over the files that exist and the paths asked for
InitValidate ==
    /\ AuditInit
    /\ MonitorInit
    /\ PlanInit({Baseline(0, 0, 0)})
    /\ AwsInit
    /\ Ec2Init({})
    /\ EstimateInit({NoCall})
    /\ ReceiptInit({[items |-> <<>>]}, {"all"})
    /\ ValidateInit(SUBSET ResolvedPaths, FilePaths)
    /\ MultipleInit({<<>>})
    /\ PlannerInit({{}}, {[target_reduction |-> FloatZero, timeframe_months |-> 1, focus_areas |-> {}]})
    /\ LookupInit

SpecValidate == InitValidate /\ [][ValidateNext]_vars

\* audit_multiple_scripts, over the lists of script paths
InitMultiple ==
    /\ AuditInit
    /\ MonitorInit
    /\ PlanInit({Baseline(0, 0, 0)})
    /\ AwsInit
    /\ Ec2Init({})
    /\ EstimateInit({NoCall})
    /\ ReceiptInit({[items |-> <<>>]}, {"all"})
    /\ ValidateInit({{}}, {"a.py"})
    /\ MultipleInit(ListsOf(ScriptPaths, MaxScripts))
    /\ PlannerInit({{}}, {[target_reduction |-> FloatZero, timeframe_months |-> 1, focus_areas |-> {}]})
    /\ LookupInit

SpecMultiple == InitMultiple /\ [][MultipleNext]_vars

\* generate_reduction_plan, over the data directories and the calls
InitPlanner ==
    /\ AuditInit
    /\ MonitorInit
    /\ PlanInit({Baseline(0, 0, 0)})
    /\ AwsInit
    /\ Ec2Init({})
    /\ EstimateInit({NoCall})
    /\ ReceiptInit({[items |-> <<>>]}, {"all"})
    /\ ValidateInit({{}}, {"a.py"})
    /\ MultipleInit({<<>>})
    /\ PlannerInit(SUBSET AuditFiles, PlannerCalls)
    /\ LookupInit

SpecPlanner == InitPlanner /\ [][PlannerNext]_vars

\* ------------------------------------------------------------------ claims

ReadingPcs == {"calc", "update", "b_calc"}

\* C1: in audit_script the sample list is read (by _calculate_emissions and for
\* the monitoring_samples count) only when no sampling thread is alive, and the
\* list the count is taken from is the list the emissions were computed from:
\* no append races with or follows a read.
C1_ReadAfterJoin ==
    /\ pc \in ReadingPcs => AliveThreads = {}
    /\ pc = "update" => frame.read = monitoring_data

\* the thread has appended samples and the parent is between its two reads
C1_Witness ==
    /\ pc = "update"
    /\ frame.op = "audit_script"
    /\ Len(frame.read) >= 1

\* C2: in monitor_script_co2 the sample list is read, for the CO2 calculation
\* and for the sample count, only after the collect_metrics thread has stopped,
\* and once the join call has returned the thread is not about to append.
C2_ReadAfterThreadStopped ==
    /\ m_pc \in {"calc", "update"} => m_thread.pc = "done"
    /\ m_pc \in {"calc", "update", "returned"} => m_thread.pc # "sample"

C4_AuditReturns ==
    (frame.op = "audit_script") ~> (pc = "idle" /\ ret.kind = "result" /\ ret.op = "audit_script")

\* a call has returned although its child never exited by itself
C4_Witness ==
    /\ pc = "idle"
    /\ ret.kind = "result"
    /\ ret.op = "audit_script"
    /\ ret.killed

\* C10: when the child does not finish within the timeout, audit_script raises
\* nothing, runs the child once, and returns execution_successful = false,
\* script_errors = 'Script execution timed out', and an estimate and a sample
\* count computed from the samples collected (from the two snapshots when no
\* sample was collected).
C10_TimeoutResult ==
    ret.killed =>
        /\ ret.kind = "result"
        /\ ret.op = "audit_script"
        /\ ~ret.execution_successful
        /\ ret.script_errors = "Script execution timed out"
        /\ ret.children = 1
        /\ ret.monitoring_samples = Len(monitoring_data)
        /\ \E i \in CpuValues, f \in CpuValues :
              ret.avg_cpu_percent = AvgCpuPercent(monitoring_data, i, f)

\* a timed-out call has returned an estimate computed from samples
C10_Witness ==
    /\ ret.kind = "result"
    /\ ret.script_errors = "Script execution timed out"
    /\ ret.monitoring_samples >= 1
    /\ ret.avg_cpu_percent > 0

\* ---- PlanGenerator

SameArguments ==
    /\ plan_prev.made
    /\ plan_prev.target_reduction = plan_last.target_reduction
    /\ plan_prev.timeframe_months = plan_last.timeframe_months
    /\ plan_prev.focus_area = plan_last.focus_area

\* C5, as stated: when _select_actions returns, either every candidate that fits
\* the timeframe was accepted, or the summed co2_reduction of the accepted
\* actions is strictly greater than target_reduction.
C5_SumExceedsTarget ==
    plan_last.made =>
        \/ Len(plan_last.actions) = Len(plan_last.candidates)
        \/ plan_last.estimated_reduction > plan_last.target_reduction

\* C5, amended: _select_actions accepts an action only while the accumulated
\* reduction is below the target, and when it returns either every candidate
\* that fits the timeframe was accepted, or the summed co2_reduction of the
\* accepted actions is at least target_reduction (it can equal it).
C5_SumReachesTarget ==
    plan_last.made =>
        /\ \/ Len(plan_last.actions) = Len(plan_last.candidates)
           \/ plan_last.estimated_reduction >= plan_last.target_reduction
        /\ \A k \in 1..Len(plan_last.actions) :
              TotalReduction(SubSeq(plan_last.actions, 1, k - 1))
                  < plan_last.target_reduction

C5_Witness ==
    /\ plan_last.made
    /\ plan_last.target_reduction > 0
    /\ Len(plan_last.actions) >= 1
    /\ Len(plan_last.actions) < Len(plan_last.candidates)
    /\ plan_last.estimated_reduction = plan_last.target_reduction

\* C6, as stated: the returned list is ordered by co2_reduction / effort_score,
\* descending: of two selected actions the earlier has a ratio at least as
\* large as the later.
C6_OrderedByRatio ==
    \A i, j \in 1..Len(plan_last.actions) :
        i < j => ~RatioGreater(plan_last.actions[j], plan_last.actions[i])

\* C6, amended: the returned list is ordered by
\* co2_reduction / (effort_score * timeline_weeks / 4), descending: of two
\* selected actions the earlier has a score at least as large as the later.
C6_OrderedByScore ==
    \A i, j \in 1..Len(plan_last.actions) :
        i < j => ~ScoreGreater(plan_last.actions[j], plan_last.actions[i])

C6_Witness ==
    /\ plan_last.made
    /\ \E i, j \in 1..Len(plan_last.actions) :
          /\ i < j
          /\ RatioGreater(plan_last.actions[j], plan_last.actions[i])
          /\ ScoreGreater(plan_last.actions[i], plan_last.actions[j])

\* C7: for the same available actions (action table and baseline), target and
\* timeframe, _select_actions returns the same actions in the same order, also
\* when candidates have equal scores.
C7_SelectionDeterministic ==
    ( /\ plan_prev.made
      /\ plan_prev.available = plan_last.available
      /\ plan_prev.target_reduction = plan_last.target_reduction
      /\ plan_prev.timeframe_months = plan_last.timeframe_months )
        => plan_prev.actions = plan_last.actions

C7_Witness ==
    /\ plan_prev.made
    /\ plan_prev.available = plan_last.available
    /\ plan_prev.target_reduction = plan_last.target_reduction
    /\ plan_prev.timeframe_months = plan_last.timeframe_months
    /\ \E i, j \in 1..Len(plan_last.actions) :
          /\ i < j
          /\ ~ScoreGreater(plan_last.actions[i], plan_last.actions[j])
          /\ ~ScoreGreater(plan_last.actions[j], plan_last.actions[i])

\* C8: two generate_plan calls with the same arguments over the same audit files
\* return the same actions, timeline and estimated_reduction, and
\* ACTION_TEMPLATES is what it was at the start, also when the baseline scales
\* co2_reduction by 1.2 or 0.8.
C8_PlanRepeatable ==
    /\ action_templates = ACTION_TEMPLATES
    /\ SameArguments =>
          /\ plan_prev.actions = plan_last.actions
          /\ plan_prev.timeline = plan_last.timeline
          /\ plan_prev.estimated_reduction = plan_last.estimated_reduction

C8_Witness ==
    /\ SameArguments
    /\ baseline.total_monthly_co2_kg > 1000
    /\ Len(plan_last.actions) >= 2
    /\ \E i \in 1..Len(plan_last.actions) :
          /\ plan_last.actions[i].title = "Reduce Energy Consumption"
          /\ plan_last.actions[i].co2_reduction = 300

\* ---- AWSAuditor.audit_all_services

\* C9: audit_all_services does not raise, and what it returns has an entry for
\* each of ec2, rds, lambda and s3; every service was audited once, whatever the
\* earlier ones did; the entry of a service whose audit raised is
\* {error, co2_kg_per_hour: 0}; every entry carries a co2_kg_per_hour to sum.
C9_EveryServiceHasEntry ==
    /\ aws_pc # "raised"
    /\ aws_pc = "returned" =>
          /\ DOMAIN aws_results = ServiceNames
          /\ \A s \in ServiceNames :
                /\ aws_audited[s] = 1
                /\ s \in aws_raised => aws_results[s] = DefaultEntry
                /\ "co2_kg_per_hour" \in DOMAIN aws_results[s]
                /\ aws_results[s].co2_kg_per_hour \in Nat

C9_Witness ==
    /\ aws_pc = "returned"
    /\ aws_raised = {"ec2", "lambda"}
    /\ aws_results["rds"].co2_kg_per_hour > 0
    /\ aws_results["s3"].co2_kg_per_hour > 0

\* ---- AWSAuditor.audit_ec2

Running(t) == ec2_fleet[t]["running"]

\* the float sum of n values x, added one by one to total
RECURSIVE AddTimes(_, _, _)
AddTimes(total, x, n) == IF n = 0 THEN total ELSE AddTimes(FloatAdd(total, x), x, n - 1)

\* power_watts / 1000 * carbon_intensity of one instance of type t
SingleValue(self, t) ==
    FloatMul(FloatDiv(FloatFromInt(Get(INSTANCE_POWER_CONSUMPTION, t, 50)), <<1000>>),
             self.carbon_intensity)

ReportOk == ec2_report.made /\ ec2_report.raised = "" /\ ec2_report.error = ""

\* C11: a report of audit_ec2 counts the instances that are running when
\* describe_instances answers, and only those: total_instances is their number,
\* every record is of a running instance, and co2_kg_per_hour is the sum over
\* the running instances alone, whatever is pending, stopped or terminated; a
\* report of a failed call counts nothing.
C11_RunningOnly ==
    /\ ReportOk =>
          /\ ec2_report.total_instances = Running("m5.large") + Running("z1.other")
          /\ \A i \in 1..Len(ec2_report.instances) :
                ec2_report.instances[i].state = "running"
          /\ ec2_report.co2_kg_per_hour =
                AddTimes(AddTimes(FloatZero, SingleValue(auditors[1], "m5.large"),
                                  Running("m5.large")),
                         SingleValue(auditors[1], "z1.other"), Running("z1.other"))
    /\ (ec2_report.made /\ ec2_report.raised = "" /\ ec2_report.error # "") =>
          /\ ec2_report.total_instances = 0
          /\ ec2_report.co2_kg_per_hour = FloatZero

C11_Witness ==
    /\ ReportOk
    /\ ec2_fleet["m5.large"]["pending"] >= 1
    /\ ec2_fleet["m5.large"]["stopped"] >= 1
    /\ ec2_fleet["z1.other"]["terminated"] >= 1
    /\ Running("m5.large") = 2
    /\ ec2_report.total_instances = 2

\* n instances of type t are running, and no others
OnlyRunning(t, n) ==
    /\ ReportOk
    /\ Running(t) = n
    /\ \A u \in {"m5.large", "z1.other"} : u # t => Running(u) = 0

\* C12, as stated: with n running instances of one type, co2_kg_per_hour is n
\* times the single-instance value.
C12_LinearExactly ==
    \A t \in {"m5.large", "z1.other"}, n \in 1..(MaxInstances + 1) :
        OnlyRunning(t, n) =>
            ec2_report.co2_kg_per_hour
                = FloatMul(FloatFromInt(n), SingleValue(auditors[1], t))

\* |total - n * x|, in units of 2^(x.e), for total >= x > 0
Deviation(total, x, n) ==
    LET sum == ShiftLeft(total.m, total.e - x.e)
        exact == BigMulSmall(x.m, n)
    IN  IF BigCmp(sum, exact) >= 0 THEN BigSub(sum, exact) ELSE BigSub(exact, sum)

\* C12, amended: with n running instances of one type, co2_kg_per_hour is n times
\* the single-instance value up to the rounding of the float sum: the two differ
\* by at most n - 1 half units in the last place of the total; they are equal
\* for n = 1 and n = 2, and 8 m5.large instances in us-east-1 give exactly 8
\* times one.
C12_LinearUpToRounding ==
    \A t \in {"m5.large", "z1.other"}, n \in 1..(MaxInstances + 1) :
        OnlyRunning(t, n) =>
            LET x == SingleValue(auditors[1], t)
                total == ec2_report.co2_kg_per_hour
            IN  /\ total.e >= x.e
                /\ BigCmp(ShiftLeft(Deviation(total, x, n), 1),
                          BigMulSmall(ShiftLeft(<<1>>, total.e - x.e), n - 1)) <= 0
                /\ n <= 2 => total = FloatMul(FloatFromInt(n), x)
                /\ (n = 8 /\ t = "m5.large" /\ auditors[1].region = "us-east-1")
                      => total = FloatMul(FloatFromInt(8), x)

C12_Witness ==
    /\ OnlyRunning("m5.large", 6)
    /\ ec2_report.co2_kg_per_hour
          # FloatMul(FloatFromInt(6), SingleValue(auditors[1], "m5.large"))

\* ---- AWSAuditor.__init__

\* C17: an auditor of a listed region has that region's constant (us-east-1
\* 0.000415, eu-west-1 0.000316, ...), and an auditor of any other region has
\* 0.0004, the same for all of them.
C17_RegionIntensity ==
    \A i \in 1..Len(auditors) :
        LET a == auditors[i]
        IN  /\ a.region = "us-east-1" => a.carbon_intensity = Millionths(415)
            /\ a.region = "us-east-2" => a.carbon_intensity = Millionths(523)
            /\ a.region = "us-west-1" => a.carbon_intensity = Millionths(351)
            /\ a.region = "us-west-2" => a.carbon_intensity = Millionths(351)
            /\ a.region = "eu-west-1" => a.carbon_intensity = Millionths(316)
            /\ a.region = "eu-central-1" => a.carbon_intensity = Millionths(338)
            /\ a.region = "ap-southeast-1" => a.carbon_intensity = Millionths(493)
            /\ a.region = "ap-northeast-1" => a.carbon_intensity = Millionths(506)
            /\ a.region \notin KnownRegions =>
                  /\ a.carbon_intensity = Millionths(400)
                  /\ \A j \in 1..Len(auditors) :
                        auditors[j].region \notin KnownRegions
                            => auditors[j].carbon_intensity = a.carbon_intensity

C17_Witness ==
    /\ Len(auditors) = 2
    /\ auditors[1].region = "eu-west-1"
    /\ auditors[2].region = "local"
    /\ auditors[2].carbon_intensity # auditors[1].carbon_intensity

\* ---- LocalAuditor: the emission estimates

NonNegative(x) == FloatCmp(x, FloatZero) >= 0

\* (total_watts / 1000) x (duration / 3600) x carbon_intensity
FormulaCo2(total_watts, duration, carbon_intensity) ==
    FloatMul(FloatMul(FloatDiv(total_watts, <<1000>>),
                      FloatDiv(FloatFromInt(duration), <<60, 60>>)),
             carbon_intensity)

\* cpu + memory + disk + network, of the reported terms
SumOfTerms(b) ==
    FloatAdd(FloatAdd(FloatAdd(b.cpu_watts, b.memory_watts), b.disk_watts), b.network_watts)

\* |x - y| <= bound
Within(x, y, bound) == FloatCmp(WithSign(1, FloatAdd(x, FloatNeg(y))), bound) <= 0

\* 10^-8 + 10^-5 x (duration / 3600) x carbon_intensity: twice what rounding
\* total_co2_kg to 8 decimals and total_watts to 2 decimals can move them
Co2Tolerance(duration, carbon_intensity) ==
    FloatAdd(FloatDiv(FloatFromInt(1), <<100, 1000, 1000>>),
             FloatMul(FloatMul(FloatDiv(FloatFromInt(1), <<100, 1000>>),
                               FloatDiv(FloatFromInt(duration), <<60, 60>>)),
                      carbon_intensity))

\* 0.03 W: more than five roundings to 2 decimals can add up to
WattsTolerance == FloatDiv(FloatFromInt(3), <<100>>)

\* C13, as stated: the values an estimate reports satisfy the formula:
\* total_co2_kg is (total_watts / 1000) x (duration / 3600) x carbon_intensity,
\* and total_watts is the sum of the reported cpu, memory, disk and network
\* watts.
C13_FormulaOnReported ==
    est_result.made =>
        /\ FloatCmp(est_result.total_co2_kg,
                    FormulaCo2(est_result.power_breakdown.total_watts, est_call.duration,
                               est_result.carbon_intensity)) = 0
        /\ FloatCmp(est_result.power_breakdown.total_watts,
                    SumOfTerms(est_result.power_breakdown)) = 0

\* C13, amended: an estimate of _calculate_emissions satisfies the formula
\* exactly on the values it reports; an estimate of _calculate_co2_from_metrics,
\* which rounds every value it reports, satisfies it up to that rounding:
\* total_co2_kg is within 10^-8 + 10^-5 x (duration / 3600) x carbon_intensity
\* of the formula, and total_watts within 0.03 W of the sum of the terms.
C13_FormulaUpToRounding ==
    est_result.made =>
        IF est_call.fn = "_calculate_emissions"
        THEN C13_FormulaOnReported
        ELSE /\ Within(est_result.total_co2_kg,
                       FormulaCo2(est_result.power_breakdown.total_watts, est_call.duration,
                                  est_result.carbon_intensity),
                       Co2Tolerance(est_call.duration, est_result.carbon_intensity))
             /\ Within(est_result.power_breakdown.total_watts,
                       SumOfTerms(est_result.power_breakdown), WattsTolerance)

\* an estimate of _calculate_co2_from_metrics whose reported total_co2_kg is
\* not the formula's value of the reported total_watts
C13_Witness ==
    /\ est_result.made
    /\ est_call.fn = "_calculate_co2_from_metrics"
    /\ est_call.monitoring_data # <<>>
    /\ FloatCmp(est_result.total_co2_kg,
                FormulaCo2(est_result.power_breakdown.total_watts, est_call.duration,
                           est_result.carbon_intensity)) # 0

\* C18: in every estimate each power component, the total power, the energy and
\* the CO2 are at least 0, whatever the (non-negative) counters of the
\* snapshots and samples are.
C18_NonNegative ==
    est_result.made =>
        /\ NonNegative(est_result.power_breakdown.cpu_watts)
        /\ NonNegative(est_result.power_breakdown.memory_watts)
        /\ NonNegative(est_result.power_breakdown.disk_watts)
        /\ NonNegative(est_result.power_breakdown.network_watts)
        /\ NonNegative(est_result.power_breakdown.total_watts)
        /\ NonNegative(est_result.total_energy_kwh)
        /\ NonNegative(est_result.total_co2_kg)

\* C19: in every estimate disk_watts is at most DEFAULT_DISK_POWER, 10 W.
C19_DiskPowerCapped ==
    est_result.made =>
        FloatCmp(est_result.power_breakdown.disk_watts, FloatFromInt(10)) <= 0

\* an estimate of more than 5 GB of disk I/O (twice that is more than 10 W),
\* reported at 10 W
C19_Witness ==
    /\ est_result.made
    /\ FloatCmp(est_result.disk_io_gb, FloatFromInt(5)) > 0
    /\ FloatCmp(est_result.power_breakdown.disk_watts, FloatFromInt(10)) = 0

\* ---- ReceiptParser.calculate_carbon_footprint

\* how often x is in the list
Count(list, x) == Cardinality({i \in 1..Len(list) : list[i] = x})

\* the names of the items, of the receipt or of items_with_emissions
Names(items) == [i \in 1..Len(items) |-> items[i].name]

\* the categories that list a keyword the item's name contains
KeywordCategories(item_name) ==
    {CATEGORY_KEYWORDS[c].category : c \in
        {d \in 1..Len(CATEGORY_KEYWORDS) :
            \E k \in 1..Len(CATEGORY_KEYWORDS[d].keywords) :
                Contains(CATEGORY_KEYWORDS[d].keywords[k], Lower(item_name))}}

\* C14: every item of the receipt is in exactly one of items_with_emissions
\* and unmatched_items (a name that is in one list is not in the other, and
\* the two lists hold it as often as the receipt does), and total_co2_kg is the
\* sum of the co2_emissions_kg of items_with_emissions.
C14_ItemsPartitioned ==
    rc_result.made =>
        /\ \A i \in 1..Len(rc_receipt.items) :
              LET name == rc_receipt.items[i].name
                  matched == Count(Names(rc_result.items_with_emissions), name)
                  unmatched == Count(rc_result.unmatched_items, name)
              IN  /\ matched = 0 \/ unmatched = 0
                  /\ matched + unmatched = Count(Names(rc_receipt.items), name)
        /\ Len(rc_result.items_with_emissions) + Len(rc_result.unmatched_items)
              = Len(rc_receipt.items)
        /\ rc_result.total_co2_kg
              = FloatSum([i \in 1..Len(rc_result.items_with_emissions) |->
                             rc_result.items_with_emissions[i].co2_emissions_kg], FloatZero)

\* a receipt of a matched and an unmatched item, with a total above zero
C14_Witness ==
    /\ rc_result.made
    /\ Len(rc_result.items_with_emissions) = 1
    /\ Len(rc_result.unmatched_items) = 1
    /\ FloatCmp(rc_result.total_co2_kg, FloatZero) > 0

\* C15: an item (of positive price and quantity) whose name contains a keyword
\* of a category is reported under that category, with co2_emissions_kg above
\* zero.
C15_KeywordCategory ==
    rc_result.made =>
        \A i \in 1..Len(rc_receipt.items) :
            \A c \in KeywordCategories(rc_receipt.items[i].name) :
                (/\ FloatCmp(rc_receipt.items[i].price, FloatZero) > 0
                 /\ FloatCmp(rc_receipt.items[i].quantity, FloatZero) > 0)
                => \E j \in 1..Len(rc_result.items_with_emissions) :
                      /\ rc_result.items_with_emissions[j].name = rc_receipt.items[i].name
                      /\ rc_result.items_with_emissions[j].category = c
                      /\ FloatCmp(rc_result.items_with_emissions[j].co2_emissions_kg,
                                  FloatZero) > 0

\* C16: with a filter other than 'all', every item of items_with_emissions has
\* a category of the filter's group (and total_co2_kg, their sum, is of such
\* items only).
C16_FilterHonoured ==
    (rc_result.made /\ rc_filter # "all") =>
        \A j \in 1..Len(rc_result.items_with_emissions) :
            category_matches_filter(rc_result.items_with_emissions[j].category, rc_filter)

\* the price per kg or litre assumed for the items of a category
AssumedPrice ==
    (<<"m", "e", "a", "t", "_", "b", "e", "e", "f">> :> Milli(15000))
    @@ (<<"m", "e", "a", "t", "_", "c", "h", "i", "c", "k", "e", "n">> :> Milli(8000))
    @@ (<<"d", "a", "i", "r", "y", "_", "m", "i", "l", "k">> :> Milli(1500))

\* C23: the estimated amount of an item categorised as beef, chicken or milk
\* is (price / assumed price) x quantity with the assumed price of its
\* category: 15.0, 8.0 and 1.5.
C23_AssumedPrice ==
    rc_result.made =>
        \A j \in 1..Len(rc_result.items_with_emissions) :
            LET item == rc_result.items_with_emissions[j]
            IN  item.category \in DOMAIN AssumedPrice =>
                    item.estimated_amount
                        = FloatMul(FloatDivide(item.price, AssumedPrice[item.category]),
                                   item.quantity)

\* ---- validate_file_path

\* C20: a call with must_exist for a path that is valid and does not exist
\* raises FileNotFoundError, and a call raises ValueError only for a path that
\* is invalid.
C20_FileNotFound ==
    vf_result # NotCalled =>
        /\ (/\ vf_call.must_exist
            /\ vf_call.file_path \notin InvalidPaths
            /\ Resolve[vf_call.file_path] \notin vf_files)
           => vf_result.raised = "FileNotFoundError"
        /\ vf_result.raised = "ValueError" => vf_call.file_path \in InvalidPaths

\* ---- PlanGenerator, the timeframe and the stopping rule

\* C24: every phase of the timeline of a plan ends within the timeframe:
\* end_week <= timeframe_months x 4.
C24_WithinTimeframe ==
    plan_last.made =>
        \A k \in 1..Len(plan_last.timeline) :
            plan_last.timeline[k].end_week <= plan_last.timeframe_months * 4

\* the selection loop without the break: every candidate is looked at
RECURSIVE SelectWithoutBreak(_, _, _, _)
SelectWithoutBreak(sorted, target, cumulative, selected) ==
    IF sorted = <<>> THEN selected
    ELSE IF cumulative < target
         THEN SelectWithoutBreak(Tail(sorted), target,
                                 cumulative + Head(sorted).co2_reduction,
                                 Append(selected, Head(sorted)))
         ELSE SelectWithoutBreak(Tail(sorted), target, cumulative, selected)

\* C30: the list _select_actions returns is the list the same loop returns
\* without the break at 1.5 x target, and no action is accepted once the
\* accumulated reduction has reached the target.
C30_BreakChangesNothing ==
    plan_last.made =>
        /\ plan_last.actions \in
              {SelectWithoutBreak(sorted, plan_last.target_reduction, 0, <<>>)
                  : sorted \in SortResults(plan_last.candidates)}
        /\ \A k \in 1..Len(plan_last.actions) :
              TotalReduction(SubSeq(plan_last.actions, 1, k - 1))
                  < plan_last.target_reduction

\* the break was taken with candidates left
C30_Witness ==
    /\ plan_last.made
    /\ plan_last.target_reduction > 0
    /\ plan_last.estimated_reduction * 2 > plan_last.target_reduction * 3
    /\ Len(plan_last.actions) >= 2
    /\ Len(plan_last.actions) < Len(plan_last.candidates)

\* ---- AWSAuditor.audit_ec2, its failures

\* C21: audit_ec2 never raises: every call returns, and a call in which a step
\* failed returns a report with an error, total_instances 0, no instance
\* records and co2_kg_per_hour 0.
C21_NeverRaises ==
    ec2_report.made =>
        /\ ec2_report.raised = ""
        /\ ec2_report.error # "" =>
              /\ ec2_report.total_instances = 0
              /\ ec2_report.instances = <<>>
              /\ ec2_report.co2_kg_per_hour = FloatZero

\* ---- LocalAuditor.audit_script, from one call to the next

OwnSamples(data) == \A i \in 1..Len(data) : data[i].by = calls

\* C25: what an audit_script call reads of the sample list, for its estimate
\* and for its monitoring_samples count, was appended by the sampling thread of
\* that call, whatever calls came before it.
C25_NoLeak ==
    (frame.op = "audit_script" /\ pc \in {"calc", "update"}) =>
        /\ OwnSamples(monitoring_data)
        /\ pc = "update" => OwnSamples(frame.read)

\* a second call reads the samples of its own thread
C25_Witness ==
    /\ frame.op = "audit_script"
    /\ pc = "update"
    /\ calls = 2
    /\ threads[1].pc = "done"
    /\ Len(frame.read) >= 1

\* C29: an audit_script call on a path that does not exist raises
\* FileNotFoundError with no sampling thread and no child process started, and
\* leaves monitoring_data and monitoring_active as they were.
C29_MissingScript ==
    [][(/\ calls' = calls + 1
        /\ ret'.kind = "raised"
        /\ ret'.error = "FileNotFoundError")
       => /\ ret'.started = 0
          /\ ret'.children = 0
          /\ threads' = threads
          /\ monitoring_data' = monitoring_data
          /\ monitoring_active' = monitoring_active]_vars

\* the call on a missing script follows a call that left samples in the list
C29_Witness ==
    /\ ret.kind = "raised"
    /\ ret.error = "FileNotFoundError"
    /\ calls = 2
    /\ Len(monitoring_data) >= 1

\* ---- LocalAuditor.audit_multiple_scripts

\* the audits of the call that returned, and those of them that did not raise
MultipleReturned == ms_pc = "done"
Audited(raised) == {i \in 1..Len(ms_audits) : ms_audits[i].raised = raised}

\* the float sum of total_co2_kg over the audits from i on that did not raise
RECURSIVE SumAudits(_, _)
SumAudits(i, total) ==
    IF i > Len(ms_audits) THEN total
    ELSE SumAudits(i + 1, IF ms_audits[i].raised THEN total
                          ELSE FloatAdd(total, ms_audits[i].total_co2_kg))

\* the last audit of the path audited at position i
LastAudit(i) ==
    \A j \in (i + 1)..Len(ms_audits) : ms_audits[j].script_path # ms_audits[i].script_path

\* C22: a call of audit_multiple_scripts audits every path of script_paths, in
\* order, whether or not earlier audits raised; the entry of a path whose
\* (last) audit raised is {error, total_co2_kg: 0}; and summary.total_co2_kg
\* is the sum of total_co2_kg over the audits that did not raise.
C22_EveryPathAudited ==
    MultipleReturned =>
        /\ Len(ms_audits) = Len(ms_paths)
        /\ \A i \in 1..Len(ms_paths) : ms_audits[i].script_path = ms_paths[i]
        /\ \A i \in Audited(TRUE) :
              LastAudit(i) =>
                  /\ DOMAIN ms_results[ms_paths[i]] = {"error", "total_co2_kg"}
                  /\ ms_results[ms_paths[i]].total_co2_kg = FloatZero
        /\ ms_results["summary"].total_co2_kg = SumAudits(1, FloatZero)

C22_Witness ==
    /\ MultipleReturned
    /\ ms_paths = <<"a.py", "b.py", "a.py">>
    /\ ms_audits[1].raised /\ ms_audits[2].raised /\ ~ms_audits[3].raised
    /\ HasError(ms_results["b.py"])
    /\ FloatCmp(ms_results["summary"].total_co2_kg, FloatZero) > 0

\* C26: summary.successful_audits is the number of entries of script_paths
\* whose audit did not raise, also for a list that names a path more than once.
C26_SuccessfulAudits ==
    MultipleReturned =>
        ms_results["summary"].successful_audits = Cardinality(Audited(FALSE))

\* ---- CO2ReductionPlanner.generate_reduction_plan

Listed(actions) == {actions[i] : i \in 1..Len(actions)}

\* the actions of an area
AreaActions(area) ==
    CASE area = "aws" -> Listed(aws_actions)
      [] area = "personal" -> Listed(personal_actions)
      [] area = "dev" -> Listed(dev_actions)

\* C27: every action of selected_actions belongs to an area of focus_areas,
\* with audit data in the data directory and without.
C27_FocusAreasOnly ==
    crp_plan.made =>
        \A i \in 1..Len(crp_plan.selected_actions) :
            \E area \in crp_plan.focus_areas :
                crp_plan.selected_actions[i] \in AreaActions(area)

\* ---- carbon intensity, AWSAuditor against utils

\* C28: for every region, listed in the tables or not, the carbon_intensity of
\* AWSAuditor(region) is what calculate_carbon_intensity(region, config) returns
\* for the default configuration.
C28_IntensityConsistent ==
    ci_lookup.made =>
        \A i \in 1..Len(auditors) :
            auditors[i].region = ci_lookup.region
                => auditors[i].carbon_intensity = ci_lookup.value

====
